---- MODULE Spec2Model ----
(***************************************************************************)
(* A model of the PDF text editing core of cv-ai-review                    *)
(* (src/lib/pdf-text-editor.ts): the similarity matcher, the block         *)
(* builder, the block locator and the copy-on-write text map update.       *)
(*                                                                         *)
(* Conventions                                                             *)
(*  - A JavaScript string is a sequence of one-character strings, so that  *)
(*    trim, the whitespace regular expression, toLowerCase, includes and   *)
(*    split are computed character by character.                           *)
(*  - A JavaScript number that holds a coordinate is an integer here; the  *)
(*    factor 0.5 of the code is applied by doubling the other side of the  *)
(*    comparison, which is exact.                                          *)
(*  - Objects that the code shares by reference (the blocks array of a     *)
(*    PdfTextMap, a TextBlock) live in heaps indexed by reference, so      *)
(*    that mutation in place and copying are different things.             *)
(***************************************************************************)
EXTENDS Integers, Sequences, FiniteSets, TLC

VARIABLES
    text1, text2, matchResult,      \* the similarity matcher's operands and result
    inputItems, textItems, blocks, grouped, \* the block builder's input and output
    blockHeap,          \* the TextBlock objects: reference -> fields
    arrayHeap,          \* the blocks arrays: reference -> sequence of block references
    pdfTextMap,         \* the map that extraction produced
    modifiedTextMap,    \* the map that the edits produced
    lastFind,           \* the last findTextBlockToReplace call and its result
    lastReplace,        \* the last replaceTextInBlock call and its result
    conversion,         \* an item of the extractor and the glyph run made of it
    bufferHeap,         \* the ArrayBuffer objects: reference -> bytes, detached
    extraction,         \* an extractTextWithPositions call in progress
    regeneration,       \* a regeneratePdfWithModifiedText call in progress
    modal,              \* the state of the mounted PdfEditorModal and its isOpen prop
    pdfInstanceRef,     \* pdfInstanceRef.current: a handle in handles, 0 for null
    handles,            \* the documents the parser opened: who opened it, destroyed
    executions,         \* the loadPdf and applySuggestion executions, in start order
    layout,             \* a drawTextWithWrapping call: its arguments and what it drew
    optimizer,          \* the state of CvOptimizer: cvFile, pdfUrl, isConvertingPdf, ...
    conversions         \* the executions of CvOptimizer's handlers, in start order

vars == <<text1, text2, matchResult, inputItems, textItems, blocks, grouped,
          blockHeap, arrayHeap, pdfTextMap, modifiedTextMap, lastFind, lastReplace,
          conversion, bufferHeap, extraction, regeneration,
          modal, pdfInstanceRef, handles, executions,
          layout, optimizer, conversions>>

fuzzyVars == <<text1, text2, matchResult>>
groupVars == <<inputItems, textItems, blocks, grouped>>
mapVars == <<blockHeap, arrayHeap, pdfTextMap, modifiedTextMap, lastFind, lastReplace>>
ioVars == <<conversion, bufferHeap, extraction, regeneration>>
modalVars == <<modal, pdfInstanceRef, handles, executions>>
wrapVars == <<layout>>
optimizerVars == <<optimizer, conversions>>

(***************************************************************************)
(* Bounds of the model.                                                    *)
(***************************************************************************)
\* longest operand of the similarity matcher that is enumerated exhaustively
MaxLen == 3
\* most glyph runs handed to the block builder
MaxRuns == 3
\* widest glyph run and tallest second run of the two-run example
MaxWidth == 8
MaxHeight == 13
\* most glyph runs of a document on which single calls of the locator and of
\* the map update are enumerated
MaxCallRuns == 2
\* most glyph runs of a document that is edited, and most edits of a session
MaxEditRuns == 3
MaxEdits == 2

(***************************************************************************)
(* Strings.                                                                *)
(***************************************************************************)
UpperCase == <<"A","B","C","D","E","F","G","H","I","J","K","L","M",
               "N","O","P","Q","R","S","T","U","V","W","X","Y","Z">>
LowerCase == <<"a","b","c","d","e","f","g","h","i","j","k","l","m",
               "n","o","p","q","r","s","t","u","v","w","x","y","z">>

\* the characters \s of a regular expression and String.prototype.trim remove
WhiteSpace == {" ", "\t", "\n"}

isWhiteSpace(c) == c \in WhiteSpace

\* String.prototype.toLowerCase on one character
charToLowerCase(c) ==
    IF \E i \in DOMAIN UpperCase : UpperCase[i] = c
    THEN LowerCase[CHOOSE i \in DOMAIN UpperCase : UpperCase[i] = c]
    ELSE c

toLowerCase(s) == [i \in DOMAIN s |-> charToLowerCase(s[i])]

\* String.prototype.trim
RECURSIVE trimStart(_)
trimStart(s) ==
    IF s # <<>> /\ isWhiteSpace(Head(s)) THEN trimStart(Tail(s)) ELSE s

RECURSIVE trimEnd(_)
trimEnd(s) ==
    IF s # <<>> /\ isWhiteSpace(s[Len(s)])
    THEN trimEnd(SubSeq(s, 1, Len(s) - 1))
    ELSE s

trim(s) == trimEnd(trimStart(s))

\* s.replace(/\s+/g, " "): every maximal run of whitespace becomes one space
RECURSIVE collapseWhiteSpace(_)
collapseWhiteSpace(s) ==
    IF s = <<>> THEN <<>>
    ELSE IF isWhiteSpace(Head(s))
         THEN <<" ">> \o collapseWhiteSpace(trimStart(s))
         ELSE <<Head(s)>> \o collapseWhiteSpace(Tail(s))

\* the normalize closure of fuzzyTextMatch
normalize(text) == toLowerCase(collapseWhiteSpace(trim(text)))

\* String.prototype.includes
includes(s, t) ==
    \E i \in 0..(Len(s) - Len(t)) : SubSeq(s, i + 1, i + Len(t)) = t

\* s.split(/\s+/): the pieces between maximal runs of whitespace, empty
\* pieces at the ends included, and [""] for the empty string
RECURSIVE splitFrom(_, _)
splitFrom(s, cur) ==
    IF s = <<>> THEN <<cur>>
    ELSE IF isWhiteSpace(Head(s))
         THEN <<cur>> \o splitFrom(trimStart(s), <<>>)
         ELSE splitFrom(Tail(s), Append(cur, Head(s)))

split(s) == splitFrom(s, <<>>)

\* new Set(array)
SetOf(seq) == {seq[i] : i \in DOMAIN seq}

\* calculateSimilarity returns intersection.size / union.size; the model keeps
\* the fraction as numerator and denominator
calculateSimilarity(s1, s2) ==
    IF s1 = s2 THEN [num |-> 1, den |-> 1]
    ELSE IF Len(s1) = 0 \/ Len(s2) = 0 THEN [num |-> 0, den |-> 1]
    ELSE LET words1 == SetOf(split(s1))
             words2 == SetOf(split(s2))
             intersection == {x \in words1 : x \in words2}
             union == words1 \cup words2
         IN  [num |-> Cardinality(intersection), den |-> Cardinality(union)]

\* a threshold that is met rather than exceeded
exceedsThreshold_AtLeast(sim) == 10 * sim.num >= 7 * sim.den

\* similarity > 0.7, with similarity = num / den and den > 0
exceedsThreshold(sim) == 10 * sim.num > 7 * sim.den

\* A variant of fuzzyTextMatch: an empty normalized text is contained in
\* no text.
fuzzyTextMatch_NonEmpty(t1, t2) ==
    LET normalizedText1 == normalize(t1)
        normalizedText2 == normalize(t2)
    IN  \/ normalizedText1 = normalizedText2
        \/ /\ normalizedText1 # <<>>
           /\ normalizedText2 # <<>>
           /\ \/ includes(normalizedText1, normalizedText2)
              \/ includes(normalizedText2, normalizedText1)
              \/ exceedsThreshold(calculateSimilarity(normalizedText1, normalizedText2))

\* fuzzyTextMatch
fuzzyTextMatch(t1, t2) ==
    LET normalizedText1 == normalize(t1)
        normalizedText2 == normalize(t2)
    IN  \/ includes(normalizedText1, normalizedText2)
        \/ includes(normalizedText2, normalizedText1)
        \/ exceedsThreshold(calculateSimilarity(normalizedText1, normalizedText2))

(***************************************************************************)
(* Glyph runs (TextItem) and the block builder.                            *)
(* A TextItem is [id, text, position: [x, y, width, height], pageIndex];   *)
(* id stands for the identity of the JavaScript object.  fontSize and      *)
(* fontName are carried by the code but read by none of the operations     *)
(* modelled here.                                                          *)
(***************************************************************************)
Abs(n) == IF n < 0 THEN -n ELSE n
Min(a, b) == IF a < b THEN a ELSE b
Max(a, b) == IF a > b THEN a ELSE b

\* the comparator handed to Array.prototype.sort
compareItems(a, b) ==
    IF a.pageIndex # b.pageIndex THEN a.pageIndex - b.pageIndex
    ELSE IF 2 * Abs(a.position.y - b.position.y)
              > Max(a.position.height, b.position.height)
         THEN b.position.y - a.position.y
         ELSE a.position.x - b.position.x

\* Array.prototype.sort as the engine runs it on an array shorter than 64
\* elements: the leading run is found (and reversed when strictly
\* descending), then every later element is placed by binary insertion.
\* For a comparator that is a consistent order this is the stable sort.
RECURSIVE countRun(_, _, _)
countRun(arr, idx, isDescending) ==
    IF idx > Len(arr) THEN idx - 1
    ELSE LET order == compareItems(arr[idx], arr[idx - 1])
         IN  IF (isDescending /\ order >= 0) \/ (~isDescending /\ order < 0)
             THEN idx - 1
             ELSE countRun(arr, idx + 1, isDescending)

reverseRange(arr, n) ==
    [i \in DOMAIN arr |-> IF i <= n THEN arr[n + 1 - i] ELSE arr[i]]

RECURSIVE insertionPoint(_, _, _, _)
insertionPoint(arr, pivot, left, right) ==
    IF left >= right THEN left
    ELSE LET mid == left + ((right - left) \div 2)
         IN  IF compareItems(pivot, arr[mid]) < 0
             THEN insertionPoint(arr, pivot, left, mid)
             ELSE insertionPoint(arr, pivot, mid + 1, right)

RECURSIVE binaryInsertionSort(_, _)
binaryInsertionSort(arr, start) ==
    IF start > Len(arr) THEN arr
    ELSE LET pivot == arr[start]
             left == insertionPoint(arr, pivot, 1, start)
             placed == SubSeq(arr, 1, left - 1) \o <<pivot>>
                       \o SubSeq(arr, left, start - 1)
                       \o SubSeq(arr, start + 1, Len(arr))
         IN  binaryInsertionSort(placed, start + 1)

sort(arr) ==
    IF Len(arr) < 2 THEN arr
    ELSE LET isDescending == compareItems(arr[2], arr[1]) < 0
             runLength == countRun(arr, 3, isDescending)
             run == IF isDescending THEN reverseRange(arr, runLength) ELSE arr
         IN  binaryInsertionSort(run, runLength + 1)

\* [...textItems].sort(cmp): the input array afterwards, and the sorted copy
sortedCopy(arr) == [input |-> arr, sorted |-> sort(arr)]

\* items.map((item) => item.text).join(" ")
RECURSIVE joinTexts(_)
joinTexts(items) ==
    IF items = <<>> THEN <<>>
    ELSE IF Len(items) = 1 THEN items[1].text
    ELSE items[1].text \o <<" ">> \o joinTexts(Tail(items))

\* Math.min and Math.max folded over a non-empty set of numbers
SetMin(S) == CHOOSE v \in S : \A w \in S : v <= w
SetMax(S) == CHOOSE v \in S : \A w \in S : v >= w

\* originalText of a block that was never modified (the property is absent)
Undefined == <<"undefined">>

\* minX, minY, maxX and maxY of createBlockFromItems after its loop
minX(items) == SetMin({items[i].position.x : i \in DOMAIN items})
minY(items) == SetMin({items[i].position.y : i \in DOMAIN items})
maxX(items) == SetMax({items[i].position.x + items[i].position.width : i \in DOMAIN items})
maxY(items) == SetMax({items[i].position.y + items[i].position.height : i \in DOMAIN items})

\* maxX - minX of createBlockFromItems
blockWidth(items) == maxX(items) - minX(items)

\* createBlockFromItems; it is called with a non-empty array only (it throws
\* on an empty one, and both callers test currentBlock.length > 0)
createBlockFromItems(items) ==
    [ items |-> items,
      text |-> joinTexts(items),
      position |-> [ x |-> minX(items),
                     y |-> minY(items),
                     width |-> blockWidth(items),
                     height |-> maxY(items) - minY(items) ],
      pageIndex |-> items[1].pageIndex,
      isModified |-> FALSE,
      originalText |-> Undefined ]

\* blocks.push(createBlockFromItems(currentBlock))
closeBlock(blks, currentBlock) ==
    Append(blks, createBlockFromItems(currentBlock))

\* A variant of finalPush: the block still open at the end is not emitted.
finalPush_Missing(blks, currentBlock) == blks

\* "Add the last block if there are items"
finalPush(blks, currentBlock) ==
    IF Len(currentBlock) > 0 THEN closeBlock(blks, currentBlock) ELSE blks

\* A variant of isNewPage: a change of page closes no block.
isNewPage_Never(item, currentPageIndex) == FALSE

\* The three triggers of the walk for the run item, given what the walk has
\* seen last
isNewPage(item, currentPageIndex) == item.pageIndex # currentPageIndex
isNewLine(item, lastY) == 2 * Abs(item.position.y - lastY) > item.position.height

\* A variant of isGap: the gap is compared with the whole width of the run.
isGap_WholeWidth(item, lastRight) ==
    item.position.x > lastRight + item.position.width

isGap(item, lastRight) == 2 * item.position.x > 2 * lastRight + item.position.width

\* the for loop over sortedItems and the final push
RECURSIVE walk(_, _, _, _, _, _)
walk(sortedItems, blks, currentBlock, currentPageIndex, lastY, lastRight) ==
    IF sortedItems = <<>>
    THEN finalPush(blks, currentBlock)
    ELSE LET item == Head(sortedItems)
             close == /\ Len(currentBlock) > 0
                      /\ \/ isNewPage(item, currentPageIndex)
                         \/ isNewLine(item, lastY)
                         \/ isGap(item, lastRight)
         IN  walk(Tail(sortedItems),
                  IF close THEN closeBlock(blks, currentBlock) ELSE blks,
                  Append(IF close THEN <<>> ELSE currentBlock, item),
                  item.pageIndex,
                  item.position.y,
                  item.position.x + item.position.width)

\* groupTextIntoBlocks: the input array as the call leaves it, and the blocks
groupTextIntoBlocks(items) ==
    LET s == sortedCopy(items)
    IN  [ input |-> s.input,
          blocks |-> walk(s.sorted, <<>>, <<>>, -1, -1, -1) ]

(***************************************************************************)
(* The block locator.  blks is the blocks array of the map, dereferenced;  *)
(* the block returned is named by its index in that array, 0 for null.     *)
(***************************************************************************)
\* the filter predicate of overlappingBlocks
overlaps(block, position) ==
    LET overlapX == Max(0, Min(block.position.x + block.position.width,
                               position.x + position.width)
                           - Max(block.position.x, position.x))
        overlapY == Max(0, Min(block.position.y + block.position.height,
                               position.y + position.height)
                           - Max(block.position.y, position.y))
    IN  overlapX > 0 /\ overlapY > 0

Indices(seq) == [i \in 1..Len(seq) |-> i]

\* A variant of firstMatch: the first overlapping block is taken whatever its text.
firstMatch_IgnoresText(blks, overlappingBlocks, originalText) == overlappingBlocks[1]

\* the for loop over overlappingBlocks and the fallback after it
firstMatch(blks, overlappingBlocks, originalText) ==
    LET matching == SelectSeq(overlappingBlocks,
                        LAMBDA i : fuzzyTextMatch(blks[i].text, originalText))
    IN  IF matching # <<>> THEN matching[1] ELSE overlappingBlocks[1]

\* A variant of overlappingOf: blocks that only touch the region count.
overlappingOf_Touching(blks, pageBlocks, position) ==
    SelectSeq(pageBlocks, LAMBDA i :
        /\ Min(blks[i].position.x + blks[i].position.width, position.x + position.width)
             >= Max(blks[i].position.x, position.x)
        /\ Min(blks[i].position.y + blks[i].position.height, position.y + position.height)
             >= Max(blks[i].position.y, position.y))

overlappingOf(blks, pageBlocks, position) ==
    SelectSeq(pageBlocks, LAMBDA i : overlaps(blks[i], position))

findTextBlockToReplace(blks, originalText, position, pageIndex) ==
    LET pageBlocks == SelectSeq(Indices(blks), LAMBDA i : blks[i].pageIndex = pageIndex)
        overlappingBlocks == overlappingOf(blks, pageBlocks, position)
    IN  IF Len(overlappingBlocks) = 0 THEN 0
        ELSE firstMatch(blks, overlappingBlocks, originalText)

(***************************************************************************)
(* The text map update.  A PdfTextMap is [blocks: a reference into         *)
(* arrayHeap, pages: the page dimensions]; the call is given the heaps and *)
(* yields the heaps after it, the map returned and the index found.        *)
(***************************************************************************)
\* the blocks of a map, dereferenced
BlocksOf(bh, ah, map) == [i \in DOMAIN ah[map.blocks] |-> bh[ah[map.blocks][i]]]

\* A variant of spreadBlocks: updatedMap shares the blocks array of textMap.
spreadBlocks_Shared(ah, ref) == [heap |-> ah, ref |-> ref]

\* blocks: [...textMap.blocks]: a new array with the same block references
spreadBlocks(ah, ref) == [heap |-> Append(ah, ah[ref]), ref |-> Len(ah) + 1]

\* A variant of findIndex: the last block with the target's origin is taken.
findIndex_Last(blks, blockToReplace) ==
    LET hits == { i \in DOMAIN blks :
                    /\ blks[i].pageIndex = blockToReplace.pageIndex
                    /\ blks[i].position.x = blockToReplace.position.x
                    /\ blks[i].position.y = blockToReplace.position.y }
    IN  IF hits = {} THEN 0 ELSE CHOOSE i \in hits : \A j \in hits : i >= j

\* updatedMap.blocks.findIndex(same pageIndex, position.x and position.y); 0 for -1
findIndex(blks, blockToReplace) ==
    LET hits == { i \in DOMAIN blks :
                    /\ blks[i].pageIndex = blockToReplace.pageIndex
                    /\ blks[i].position.x = blockToReplace.position.x
                    /\ blks[i].position.y = blockToReplace.position.y }
    IN  IF hits = {} THEN 0 ELSE CHOOSE i \in hits : \A j \in hits : i <= j

\* { ...blockToReplace, text: newText, originalText: blockToReplace.text,
\*   isModified: true }
updatedBlockOf(blockToReplace, newText) ==
    [blockToReplace EXCEPT !.text = newText,
                           !.originalText = blockToReplace.text,
                           !.isModified = TRUE]

\* A variant of notFoundResult: the copy is returned.
notFoundResult_Copy(textMap, updatedMap) == updatedMap

\* "Block not found in text map": return textMap
notFoundResult(textMap, updatedMap) == textMap

\* A variant of assignBlock: the updated block is pushed at the end.
assignBlock_Pushed(arr, blockIndex, ref) == Append(arr, ref)

\* updatedMap.blocks[blockIndex] = updatedBlock
assignBlock(arr, blockIndex, ref) == [arr EXCEPT ![blockIndex] = ref]

\* replaceTextInBlock.  An array that nothing refers to after the call (the copy
\* made before a failed lookup) is not kept on the heap.
replaceTextInBlock(bh, ah, textMap, blockToReplace, newText) ==
    LET spread == spreadBlocks(ah, textMap.blocks)
        updatedMap == [blocks |-> spread.ref, pages |-> textMap.pages]
        blockIndex == findIndex(BlocksOf(bh, spread.heap, updatedMap), blockToReplace)
    IN  IF blockIndex = 0
        THEN LET result == notFoundResult(textMap, updatedMap)
             IN  [ result |-> result,
                   blockHeap |-> bh,
                   arrayHeap |-> IF result.blocks = spread.ref THEN spread.heap ELSE ah,
                   blockIndex |-> 0 ]
        ELSE [ result |-> updatedMap,
               blockHeap |-> Append(bh, updatedBlockOf(blockToReplace, newText)),
               arrayHeap |-> [spread.heap EXCEPT ![spread.ref] =
                                 assignBlock(@, blockIndex, Len(bh) + 1)],
               blockIndex |-> blockIndex ]

(***************************************************************************)
(* Extraction: the conversion of an item of the extractor into a glyph     *)
(* run.  An item is [str, transform, width, height, fontSize]; transform   *)
(* is the matrix [a, b, c, d, e, f]; width, height and fontSize are <<>>   *)
(* when the extractor omits them and <<n>> when it supplies n.  Lengths    *)
(* are integers, and the factors 1.2 and 0.6 are applied as twelve and six *)
(* tenths, which is exact for the multiples of 5 that the font sizes of    *)
(* the model are.  fontName is carried by the code and read by nothing.    *)
(***************************************************************************)
\* v || fallback for an optional number v: undefined and 0 are falsy
orElse(v, fallback) == IF v # <<>> /\ v[1] # 0 THEN v[1] ELSE fallback

tenths(n, t) == (n * t) \div 10

\* const fontSize = item.height || item.transform[3] * (item.fontSize || 10)
fontSizeOf(item) == orElse(item.height, item.transform[4] * orElse(item.fontSize, 10))

\* A variant of heightOf: the font size itself is the height.
heightOf_Same(fontSize) == fontSize

\* const height = fontSize * 1.2
heightOf(fontSize) == tenths(fontSize, 12)

\* the callback of textContent.items.map; id is the identity of the new object
toTextItem(item, pageIndex, id) ==
    LET fontSize == fontSizeOf(item)
        height == heightOf(fontSize)
    IN  [ id |-> id,
          text |-> item.str,
          position |-> [ x |-> item.transform[5],
                         y |-> item.transform[6],
                         width |-> orElse(item.width,
                                          tenths(Len(item.str) * fontSize, 6)),
                         height |-> height,
                         fontSize |-> fontSize ],
          pageIndex |-> pageIndex ]

(***************************************************************************)
(* Regeneration: the drawing operations that regeneratePdfWithModifiedText *)
(* issues on the pages of the loaded document.  An operation is            *)
(* [op, page, x, y, ...] with the arguments the code passes; block is the  *)
(* index in textMap.blocks of the block the operation was issued for,      *)
(* which the code does not pass and the model records.  The font is        *)
(* modelled by one advance for every character: half the font size.        *)
(***************************************************************************)
\* font.widthOfTextAtSize(text, size)
widthOfTextAtSize(text, size) == Len(text) * (size \div 2)

\* String.prototype.split with a separator of one character
RECURSIVE splitOnFrom(_, _, _)
splitOnFrom(s, sep, cur) ==
    IF s = <<>> THEN <<cur>>
    ELSE IF Head(s) = sep
         THEN <<cur>> \o splitOnFrom(Tail(s), sep, <<>>)
         ELSE splitOnFrom(Tail(s), sep, Append(cur, Head(s)))

splitOn(s, sep) == splitOnFrom(s, sep, <<>>)

\* page.drawText(line, { x, y: y + yOffset, size: fontSize, font })
drawTextOp(line, x, y, fontSize) ==
    [op |-> "drawText", text |-> line, x |-> x, y |-> y, size |-> fontSize]

\* A variant of overflows: no line is ever flushed.
overflows_Never(testWidth, maxWidth, line) == FALSE

\* if (testWidth > maxWidth && line !== "")
overflows(testWidth, maxWidth, line) == testWidth > maxWidth /\ line # <<>>

\* the loop over the words of a paragraph and the draw of its last line; the
\* result is the operations issued and the vertical offset afterwards
RECURSIVE wrapWords(_, _, _, _, _, _, _, _)
wrapWords(words, line, x, y, yOffset, maxWidth, fontSize, ops) ==
    LET lineHeight == tenths(fontSize, 12)
    IN  IF words = <<>>
        THEN IF line # <<>>
             THEN [ ops |-> Append(ops, drawTextOp(line, x, y + yOffset, fontSize)),
                    yOffset |-> yOffset + tenths(lineHeight, 15) ]
             ELSE [ops |-> ops, yOffset |-> yOffset]
        ELSE LET word == Head(words)
                 testLine == line \o (IF line # <<>> THEN <<" ">> ELSE <<>>) \o word
                 testWidth == widthOfTextAtSize(testLine, fontSize)
             IN  IF overflows(testWidth, maxWidth, line)
                 THEN wrapWords(Tail(words), word, x, y, yOffset + lineHeight,
                                maxWidth, fontSize,
                                Append(ops, drawTextOp(line, x, y + yOffset, fontSize)))
                 ELSE wrapWords(Tail(words), testLine, x, y, yOffset,
                                maxWidth, fontSize, ops)

\* the loop over the paragraphs
RECURSIVE wrapParagraphs(_, _, _, _, _, _, _)
wrapParagraphs(paragraphs, x, y, yOffset, maxWidth, fontSize, ops) ==
    IF paragraphs = <<>> THEN ops
    ELSE LET paragraph == Head(paragraphs)
         IN  IF trim(paragraph) = <<>>
             THEN wrapParagraphs(Tail(paragraphs), x, y,
                                 yOffset + tenths(fontSize, 12), maxWidth, fontSize, ops)
             ELSE LET r == wrapWords(splitOn(paragraph, " "), <<>>, x, y, yOffset,
                                     maxWidth, fontSize, ops)
                  IN  wrapParagraphs(Tail(paragraphs), x, y, r.yOffset,
                                     maxWidth, fontSize, r.ops)

\* drawTextWithWrapping: the drawText operations it issues, in order
drawTextWithWrapping(text, x, y, maxWidth, fontSize) ==
    wrapParagraphs(splitOn(text, "\n"), x, y, 0, maxWidth, fontSize, <<>>)

\* page.drawRectangle({x, y, width, height, color: rgb(1, 1, 1), opacity: 1.0})
drawRectangleOp(block, height) ==
    [ op |-> "drawRectangle",
      x |-> block.position.x,
      y |-> height - block.position.y - block.position.height,
      width |-> block.position.width,
      height |-> block.position.height ]

\* an operation, with the page it was issued on and the block it was issued for
issuedFor(operation, pageIndex, k) ==
    [operation |-> operation, page |-> pageIndex, block |-> k]

\* the body of "for (const block of modifiedBlocks)" for the block at index k
drawBlock(block, k, pageIndex, height) ==
    LET texts == drawTextWithWrapping(block.text, block.position.x,
                     height - block.position.y - block.position.height,
                     block.position.width, 10)
    IN  <<issuedFor(drawRectangleOp(block, height), pageIndex, k)>>
        \o [i \in DOMAIN texts |-> issuedFor(texts[i], pageIndex, k)]

\* A variant of isRedrawn: every block of the page is redrawn.
isRedrawn_AnyBlock(block, pageIndex) == block.pageIndex = pageIndex

\* the filter predicate of modifiedBlocks
isRedrawn(block, pageIndex) == block.pageIndex = pageIndex /\ block.isModified

\* the operations issued on the page pageIndex, whose height is height
RECURSIVE drawBlocksFrom(_, _, _, _)
drawBlocksFrom(blks, k, pageIndex, height) ==
    IF k > Len(blks) THEN <<>>
    ELSE (IF isRedrawn(blks[k], pageIndex)
          THEN drawBlock(blks[k], k, pageIndex, height) ELSE <<>>)
         \o drawBlocksFrom(blks, k + 1, pageIndex, height)

\* "Process each page": the operations issued on all the pages of the document
RECURSIVE drawPagesFrom(_, _, _)
drawPagesFrom(pages, pageIndex, blks) ==
    IF pageIndex >= Len(pages) THEN <<>>
    ELSE drawBlocksFrom(blks, 1, pageIndex, pages[pageIndex + 1].size.height)
         \o drawPagesFrom(pages, pageIndex + 1, blks)

(***************************************************************************)
(* Byte buffers and the two asynchronous operations.  An ArrayBuffer lives *)
(* in bufferHeap as [bytes, detached]; bytes is the document the bytes     *)
(* encode: [pages, overwritten], a page being [size, items, drawn] with    *)
(* the items the extractor yields for it and the operations drawn on it.   *)
(* An operation in progress is a record: pc names the call it awaits,      *)
(* awaited is the state of that call's promise, which the parser settles;  *)
(* the operation's code then runs up to its next await, or to its end.     *)
(***************************************************************************)
\* new Uint8Array(arrayBuffer): a view on the same ArrayBuffer
viewOf(ref) == [buffer |-> ref]

\* uint8Array.slice().buffer: a new ArrayBuffer with the same bytes
sliceCopy(bh, view) ==
    [ heap |-> Append(bh, [bytes |-> bh[view.buffer].bytes, detached |-> FALSE]),
      ref |-> Len(bh) + 1 ]

Pending == [state |-> "pending", error |-> "none"]
Fulfilled == [state |-> "fulfilled", error |-> "none"]
Rejected(error) == [state |-> "rejected", error |-> error]

\* the operations on a document's pages after the operations ops were issued
drawnOn(document, ops) ==
    [ document EXCEPT !.pages =
        [ i \in DOMAIN document.pages |->
            [ document.pages[i] EXCEPT !.drawn =
                @ \o SelectSeq(ops, LAMBDA o : o.page = i - 1) ] ] ]

\* extractTextWithPositions up to "await loadingTask.promise"
extractStart(bh, pdfArrayBuffer) ==
    LET uint8Array == viewOf(pdfArrayBuffer)
        freshBuffer == sliceCopy(bh, uint8Array)
    IN  [ heap |-> freshBuffer.heap,
          process |-> [ pc |-> "load",
                        caller |-> pdfArrayBuffer,
                        freshBuffer |-> freshBuffer.ref,
                        given |-> uint8Array.buffer,
                        document |-> bh[pdfArrayBuffer].bytes,
                        awaited |-> Pending,
                        pageIndex |-> 0,
                        allTextItems |-> <<>>,
                        pageInfo |-> <<>>,
                        result |-> <<>>,
                        error |-> "none" ] ]

\* A variant of extractCatch: the pages extracted so far are returned.
extractCatch_Partial(ext, error) ==
    [ ext EXCEPT !.pc = "resolved",
                 !.result = << [ blocks |-> groupTextIntoBlocks(ext.allTextItems).blocks,
                                 pages |-> ext.pageInfo ] >> ]

\* catch (error) { console.error(...); throw error; }
extractCatch(ext, error) == [ext EXCEPT !.pc = "rejected", !.error = error]

\* the loop's test and what follows it: the next page is requested, or the
\* items are grouped and the map is returned
extractLoop(ext) ==
    IF ext.pageIndex < Len(ext.document.pages)
    THEN [ext EXCEPT !.pc = "getPage", !.awaited = Pending]
    ELSE [ ext EXCEPT !.pc = "resolved",
                      !.result = << [ blocks |-> groupTextIntoBlocks(ext.allTextItems).blocks,
                                      pages |-> ext.pageInfo ] >> ]

\* A variant of pageTextItems: the runs keep the extractor's page number.
pageTextItems_OneBased(items, pageIndex, count) ==
    [i \in DOMAIN items |-> toTextItem(items[i], pageIndex + 1, count + i)]

\* the items of a page converted, each a new object
pageTextItems(items, pageIndex, count) ==
    [i \in DOMAIN items |-> toTextItem(items[i], pageIndex, count + i)]

\* extractTextWithPositions from the await that has settled up to the next
extractContinue(ext) ==
    IF ext.awaited.state = "rejected" THEN extractCatch(ext, ext.awaited.error)
    ELSE IF ext.pc = "load" THEN extractLoop(ext)
    ELSE IF ext.pc = "getPage"
    THEN [ ext EXCEPT !.pageInfo = Append(@, ext.document.pages[ext.pageIndex + 1].size),
                      !.pc = "getTextContent",
                      !.awaited = Pending ]
    ELSE extractLoop(
             [ ext EXCEPT !.allTextItems =
                              @ \o pageTextItems(ext.document.pages[ext.pageIndex + 1].items,
                                                 ext.pageIndex, Len(ext.allTextItems)),
                          !.pageIndex = @ + 1 ])

\* const bufferCopy = new Uint8Array(originalPdfArrayBuffer).buffer: the
\* buffer of the view, which is the buffer the view was made on
bufferCopyOf(bh, originalPdfArrayBuffer) ==
    [heap |-> bh, ref |-> viewOf(originalPdfArrayBuffer).buffer]

\* regeneratePdfWithModifiedText up to "await PDFDocument.load(bufferCopy)"
regenerateStart(bh, originalPdfArrayBuffer, textMap, pass) ==
    LET bufferCopy == bufferCopyOf(bh, originalPdfArrayBuffer)
    IN  [ heap |-> bufferCopy.heap,
          process |-> [ pc |-> "load",
                        caller |-> originalPdfArrayBuffer,
                        given |-> bufferCopy.ref,
                        textMap |-> textMap,
                        document |-> bh[originalPdfArrayBuffer].bytes,
                        awaited |-> Pending,
                        ops |-> <<>>,
                        result |-> <<>>,
                        error |-> "none",
                        pass |-> pass ] ]

\* catch (error) { console.error(...); throw error; }
regenerateCatch(reg, error) == [reg EXCEPT !.pc = "rejected", !.error = error]

\* regeneratePdfWithModifiedText from the await that has settled up to the
\* next; pdfDoc.save() yields a new Uint8Array
regenerateContinue(bh, reg) ==
    IF reg.awaited.state = "rejected"
    THEN [heap |-> bh, process |-> regenerateCatch(reg, reg.awaited.error)]
    ELSE IF reg.pc = "load"
    THEN [heap |-> bh, process |-> [reg EXCEPT !.pc = "embedFont", !.awaited = Pending]]
    ELSE IF reg.pc = "embedFont"
    THEN [ heap |-> bh,
           process |-> [ reg EXCEPT !.ops = drawPagesFrom(reg.document.pages, 0,
                                                          reg.textMap.blocks),
                                    !.pc = "save",
                                    !.awaited = Pending ] ]
    ELSE [ heap |-> Append(bh, [ bytes |-> drawnOn(reg.document, reg.ops),
                                 detached |-> FALSE ]),
           process |-> [reg EXCEPT !.pc = "resolved", !.result = <<Len(bh) + 1>>] ]

(***************************************************************************)
(* The editor modal.  A session is [modal, pdfInstanceRef, handles,        *)
(* executions]: the React state of the component with its isOpen prop, the *)
(* ref to the open document, the documents that pdfjs.getDocument has      *)
(* opened, and the executions of the async functions loadPdf and           *)
(* applySuggestion.  An execution is at the call it awaits (pc) and holds  *)
(* what its closure captured; a suggestion's id is its index in the        *)
(* suggestions list, and an object URL is the number of the execution that *)
(* created it.  The calls that extractTextWithPositions and                *)
(* regeneratePdfWithModifiedText make are modelled above; here each is one *)
(* awaited call that resolves or rejects.                                  *)
(***************************************************************************)
\* the state of a component that is not mounted; null is 0 or <<>>
NoModal ==
    [ mounted |-> FALSE, isOpen |-> FALSE, pdfjs |-> FALSE, loading |-> FALSE,
      currentSuggestionId |-> 0, pdfTextMap |-> <<>>, modifiedTextMap |-> <<>>,
      modifiedPdfUrl |-> 0, suggestions |-> <<>> ]

\* a state setter; React drops the update of a component that is unmounted
setState(s, m) == IF s.modal.mounted THEN [s EXCEPT !.modal = m] ELSE s

\* if (pdfInstanceRef.current) pdfInstanceRef.current.destroy()
destroyCurrent(s) ==
    IF s.pdfInstanceRef = 0 THEN s
    ELSE [s EXCEPT !.handles[s.pdfInstanceRef].destroyed = TRUE]

\* await pdfjs.getDocument(...).promise resolves with a newly opened document
openedBy(s, by) ==
    [s EXCEPT !.handles = Append(@, [openedBy |-> by, destroyed |-> FALSE])]

\* a new execution of an async function
executionOf(kind, pc, suggestionId, url, updatedTextMap) ==
    [ kind |-> kind, pc |-> pc, suggestionId |-> suggestionId,
      modifiedPdfUrl |-> url, updatedTextMap |-> updatedTextMap ]

\* loadPdf, finally: setLoading(false)
loadPdfFinally(s, i, pc) ==
    setState([s EXCEPT !.executions[i].pc = pc], [s.modal EXCEPT !.loading = FALSE])

\* loadPdf up to "await file.arrayBuffer()"
loadPdfStart(s) ==
    LET loading == setState(s, [s.modal EXCEPT !.loading = TRUE])
        cleaned == [destroyCurrent(loading) EXCEPT !.pdfInstanceRef = 0]
    IN  [cleaned EXCEPT !.executions =
            Append(@, executionOf("loadPdf", "arrayBuffer", 0, 0, <<>>))]

\* loadPdf from the call it awaits, which has settled with outcome, to the next
\* await or to its end; textMap is what the extraction returns, newSuggestions
\* what generateSuggestions builds, and opened tells whether a rejected
\* extraction had opened its document (it fails on a page) or not (it fails
\* on the load)
loadPdfContinue(s, i, outcome, opened, textMap, newSuggestions) ==
    LET pc == s.executions[i].pc
    IN  IF pc = "arrayBuffer"
        THEN IF outcome = Fulfilled
             THEN [s EXCEPT !.executions[i].pc = "getDocument"]
             ELSE loadPdfFinally(s, i, "failed")
        ELSE IF pc = "getDocument"
        THEN IF outcome = Fulfilled
             THEN LET s1 == openedBy(s, "loadPdf")
                  IN  [s1 EXCEPT !.pdfInstanceRef = Len(s1.handles),
                                 !.executions[i].pc = "extractTextWithPositions"]
             ELSE loadPdfFinally(s, i, "failed")
        ELSE IF pc = "extractTextWithPositions"
        THEN LET s1 == IF outcome = Fulfilled \/ opened
                       THEN openedBy(s, "extractTextWithPositions") ELSE s
             IN  IF outcome = Fulfilled
                 THEN setState([s1 EXCEPT !.executions[i].pc = "generateSuggestions"],
                               [s1.modal EXCEPT !.pdfTextMap = <<textMap>>,
                                                !.modifiedTextMap = <<textMap>>])
                 ELSE loadPdfFinally(s1, i, "failed")
        ELSE LET s1 == IF outcome = Fulfilled
                       THEN setState(s, [s.modal EXCEPT !.suggestions = newSuggestions])
                       ELSE s
             IN  loadPdfFinally(s1, i, "done")

\* the blocks of the map that replaceTextInBlock returns
replacedBlocks(blks, blockToReplace, newText) ==
    LET blockIndex == findIndex(blks, blockToReplace)
    IN  IF blockIndex = 0 THEN blks
        ELSE [blks EXCEPT ![blockIndex] = updatedBlockOf(blockToReplace, newText)]

\* applySuggestion, finally: setLoading(false); setCurrentSuggestionId(null)
applyFinally(s, i, pc) ==
    setState([s EXCEPT !.executions[i].pc = pc],
             [s.modal EXCEPT !.loading = FALSE, !.currentSuggestionId = 0])

\* A variant of applyCatch: the edit is stored although the attempt failed.
applyCatch_StoresEdit(s, i) ==
    applyFinally(setState(s, [s.modal EXCEPT
                                 !.modifiedTextMap = s.executions[i].updatedTextMap]),
                 i, "failed")

\* applySuggestion, catch (error): the error is logged
applyCatch(s, i) == applyFinally(s, i, "failed")

\* applySuggestion up to "await pdfFile.arrayBuffer()", or to its end when no
\* block is located
applySuggestionStart(s, suggestionId) ==
    LET suggestion == s.modal.suggestions[suggestionId]
        textMap == s.modal.modifiedTextMap[1]
        found == findTextBlockToReplace(textMap.blocks, suggestion.originalText,
                     suggestion.position, suggestion.page - 1)
        i == Len(s.executions) + 1
        started == setState(s, [s.modal EXCEPT !.loading = TRUE,
                                               !.currentSuggestionId = suggestionId])
    IN  IF found = 0
        THEN applyFinally(
                 [started EXCEPT !.executions =
                     Append(@, executionOf("applySuggestion", "notLocated", suggestionId,
                                           s.modal.modifiedPdfUrl, <<>>))],
                 i, "notLocated")
        ELSE LET updatedTextMap ==
                     [textMap EXCEPT !.blocks =
                         replacedBlocks(textMap.blocks, textMap.blocks[found],
                                        suggestion.suggestedText)]
             IN  [started EXCEPT !.executions =
                     Append(@, executionOf("applySuggestion", "arrayBuffer", suggestionId,
                                           s.modal.modifiedPdfUrl, <<updatedTextMap>>))]

\* updatePdfWithModifiedBytes up to "await loadingTask.promise"
updatePdfStart(s, i) ==
    setState([s EXCEPT !.executions[i].pc = "getDocument"],
             [s.modal EXCEPT
                 !.modifiedPdfUrl = i,
                 !.suggestions = [k \in DOMAIN s.modal.suggestions |->
                     IF k = s.executions[i].suggestionId
                     THEN [s.modal.suggestions[k] EXCEPT !.applied = TRUE]
                     ELSE s.modal.suggestions[k]]])

\* updatePdfWithModifiedBytes after the await: the new document replaces the
\* current one, or the error is logged
updatePdfEnd(s, outcome) ==
    IF outcome = Fulfilled
    THEN LET s1 == openedBy(destroyCurrent(s), "updatePdfWithModifiedBytes")
         IN  [s1 EXCEPT !.pdfInstanceRef = Len(s1.handles)]
    ELSE s

\* applySuggestion from the call it awaits, which has settled with outcome
applySuggestionContinue(s, i, outcome) ==
    LET pc == s.executions[i].pc
    IN  IF pc = "arrayBuffer"
        THEN IF outcome = Fulfilled
             THEN [s EXCEPT !.executions[i].pc = "regeneratePdfWithModifiedText"]
             ELSE applyCatch(s, i)
        ELSE IF pc = "regeneratePdfWithModifiedText"
        THEN IF outcome = Fulfilled THEN updatePdfStart(s, i) ELSE applyCatch(s, i)
        ELSE LET s1 == updatePdfEnd(s, outcome)
                 s2 == setState(s1, [s1.modal EXCEPT
                           !.modifiedTextMap = s.executions[i].updatedTextMap])
             IN  applyFinally(s2, i, "done")

\* the cleanup of the mount effect; the state of the component is discarded
unmount(s) ==
    [destroyCurrent(s) EXCEPT !.pdfInstanceRef = 0, !.modal = NoModal]

(***************************************************************************)
(* CvOptimizer.  The component's state is a record; jobDescription is      *)
(* whether a job description has been typed, fileError whether an error    *)
(* message is set.  A File is the ordinal of the upload that brought it    *)
(* (0 for null), and the URL that the conversion route returns for a file  *)
(* is written as that file's ordinal, so that pdfUrl = cvFile reads "the   *)
(* URL is the conversion of the current file".  The executions of the two  *)
(* handlers are kept in conversions, each with the call it awaits.         *)
(***************************************************************************)
\* handleFileUpload, catch (error): setFileError(...)
uploadCatch(s, i) ==
    [s EXCEPT !.conversions[i].pc = "failed", !.optimizer.fileError = TRUE]

\* convertPdfToImage, finally: setIsConvertingPdf(false)
convertFinally(s, i) == [s EXCEPT !.optimizer.isConvertingPdf = FALSE]

\* const url = await convertPdfToImage(file); setPdfUrl(url)
storeUrl(s, i) == [s EXCEPT !.optimizer.pdfUrl = s.conversions[i].file]

\* handleFileUpload up to "await fetch(...)" in convertPdfToImage, or to its
\* end for a file whose type is not application/pdf
handleFileUploadStart(s, isPdf) ==
    LET i == Len(s.conversions) + 1
        file == 1 + Cardinality({j \in DOMAIN s.conversions :
                                    s.conversions[j].kind = "handleFileUpload"})
        s1 == [s EXCEPT !.optimizer.cvFile = file,
                        !.optimizer.fileError = FALSE,
                        !.optimizer.pdfUrl = 0,
                        !.conversions = Append(@, [ kind |-> "handleFileUpload",
                                                    file |-> file, pdfUrl |-> 0,
                                                    pc |-> "fetch" ])]
    IN  IF isPdf THEN [s1 EXCEPT !.optimizer.isConvertingPdf = TRUE]
        ELSE uploadCatch(s1, i)

\* handleFileUpload from the call that convertPdfToImage awaits, which has
\* settled with outcome: "ok" and "notOk" are responses, "rejected" a failure
handleFileUploadContinue(s, i, outcome) ==
    LET pc == s.conversions[i].pc
    IN  IF outcome = "rejected" \/ pc = "errorJson"
        THEN uploadCatch(convertFinally(s, i), i)
        ELSE IF pc = "fetch"
        THEN [s EXCEPT !.conversions[i].pc = IF outcome = "ok" THEN "json" ELSE "errorJson"]
        ELSE storeUrl(convertFinally([s EXCEPT !.conversions[i].pc = "done"], i), i)

\* the Analyze button is enabled
analyzeEnabled(o) ==
    /\ o.jobDescription
    /\ o.cvFile # 0
    /\ ~o.isAnalyzing
    /\ ~o.isConvertingPdf
    /\ o.pdfUrl # 0
    /\ ~o.fileError

\* handleAnalyze up to "await analyzeCvWithJobDescription(pdfUrl, ...)"; the
\* three early returns and the else branch need a button that is disabled
handleAnalyzeStart(s) ==
    [s EXCEPT !.optimizer.isAnalyzing = TRUE,
              !.conversions = Append(@, [ kind |-> "handleAnalyze",
                                          file |-> s.optimizer.cvFile,
                                          pdfUrl |-> s.optimizer.pdfUrl,
                                          pc |-> "analyze" ])]

\* handleAnalyze from the analysis, which has settled
handleAnalyzeContinue(s, i, outcome) ==
    IF outcome = "ok"
    THEN [s EXCEPT !.conversions[i].pc = "done",
                   !.optimizer.results = s.conversions[i].pdfUrl,
                   !.optimizer.isAnalyzing = FALSE]
    ELSE [s EXCEPT !.conversions[i].pc = "failed",
                   !.optimizer.fileError = TRUE,
                   !.optimizer.isAnalyzing = FALSE]

(***************************************************************************)
(* The similarity matcher on its own: the operands are drawn, then         *)
(* fuzzyTextMatch is applied to them.                                      *)
(***************************************************************************)
FuzzyChars == {"a", "A", "b", " "}

RECURSIVE TextsUpTo(_)
TextsUpTo(n) ==
    IF n = 0 THEN {<<>>}
    ELSE LET shorter == TextsUpTo(n - 1)
         IN  shorter \cup {Append(t, c) : t \in shorter, c \in FuzzyChars}

Python == <<"P","y","t","h","o","n">>
Java == <<"J","a","v","a">>
ABC == <<"a"," ","b"," ","c">>
BCD == <<"b"," ","c"," ","d">>
CBAD == <<"c"," ","b"," ","a"," ","d">>
SevenWords == <<"a"," ","b"," ","c"," ","d"," ","e"," ","f"," ","g">>
TenWords == <<"g"," ","f"," ","e"," ","d"," ","c"," ","b"," ","a",
              " ","x"," ","y"," ","z">>
SeniorSpaced == <<"S","e","n","i","o","r"," "," ","S","o","f","t","w","a","r","e",
                  " "," "," ","E","n","g","i","n","e","e","r">>
SeniorPlain == <<"s","e","n","i","o","r"," ","s","o","f","t","w","a","r","e",
                 " ","e","n","g","i","n","e","e","r">>
TabBetween == <<"a","\t","\n","B"," ">>

SampleTexts == {Python, Java, ABC, BCD, CBAD, SevenWords, TenWords,
                SeniorSpaced, SeniorPlain, TabBetween}

FuzzyTexts == TextsUpTo(MaxLen) \cup SampleTexts

Idle == <<"idle">>
NoMap == [blocks |-> 0, pages |-> <<>>]
NoCall == [called |-> FALSE]

InitMapIdle ==
    /\ blockHeap = <<>> /\ arrayHeap = <<>>
    /\ pdfTextMap = NoMap /\ modifiedTextMap = NoMap
    /\ lastFind = NoCall /\ lastReplace = NoCall

InitGroupIdle ==
    /\ inputItems = <<>> /\ textItems = <<>> /\ blocks = <<>> /\ grouped = FALSE

InitFuzzyIdle ==
    /\ text1 = Idle /\ text2 = Idle /\ matchResult = "none"

NoConversion == [done |-> FALSE]
NoProcess == [pc |-> "idle"]

NoLayout == [done |-> FALSE]

InitWrapIdle == layout = NoLayout

NoOptimizer ==
    [ mounted |-> FALSE, jobDescription |-> FALSE, cvFile |-> 0, isAnalyzing |-> FALSE,
      results |-> 0, fileError |-> FALSE, isConvertingPdf |-> FALSE, pdfUrl |-> 0 ]

InitOptimizerIdle == optimizer = NoOptimizer /\ conversions = <<>>

InitModalIdle ==
    /\ modal = NoModal /\ pdfInstanceRef = 0 /\ handles = <<>> /\ executions = <<>>

InitIoIdle ==
    /\ conversion = NoConversion
    /\ bufferHeap = <<>>
    /\ extraction = NoProcess
    /\ regeneration = NoProcess

InitFuzzy ==
    /\ text1 \in FuzzyTexts
    /\ text2 \in FuzzyTexts
    /\ matchResult = "none"
    /\ InitGroupIdle
    /\ InitMapIdle
    /\ InitModalIdle
    /\ InitWrapIdle
    /\ InitOptimizerIdle
    /\ InitIoIdle

FuzzyMatch ==
    /\ matchResult = "none"
    /\ matchResult' = IF fuzzyTextMatch(text1, text2) THEN "true" ELSE "false"
    /\ UNCHANGED <<text1, text2, groupVars, mapVars, ioVars, modalVars, wrapVars, optimizerVars>>

NextFuzzy == FuzzyMatch

SpecFuzzy == InitFuzzy /\ [][NextFuzzy]_vars

(***************************************************************************)
(* The block builder on its own: the glyph runs are drawn, then            *)
(* groupTextIntoBlocks is applied to them.                                 *)
(***************************************************************************)
Words == <<"a", "b", "c", "d", "e">>

Pages == {0, 1}
XS == {0, 4}
WidthS == {0, 4}
\* y and height of a run: a tall run low on the page and a short one above it,
\* 5 apart: within half the height of the first, beyond that of the second
YHS == {<<5, 12>>, <<10, 8>>}

RunShapes ==
    { [ position |-> [x |-> x, y |-> yh[1], width |-> w, height |-> yh[2]],
        pageIndex |-> p ] : x \in XS, yh \in YHS, w \in WidthS, p \in Pages }

\* the glyph runs of the shapes, each with its identity and its text
ItemsOf(shapes) ==
    [ i \in DOMAIN shapes |->
        [ id |-> i, text |-> <<Words[i]>>,
          position |-> shapes[i].position, pageIndex |-> shapes[i].pageIndex ] ]

RECURSIVE SeqsUpTo(_, _)
SeqsUpTo(S, n) ==
    IF n = 0 THEN {<<>>}
    ELSE LET shorter == SeqsUpTo(S, n - 1)
         IN  shorter \cup {Append(q, e) : q \in shorter, e \in S}

GroupInputs == {ItemsOf(shapes) : shapes \in SeqsUpTo(RunShapes, MaxRuns)}

InitGroup ==
    /\ inputItems \in GroupInputs
    /\ textItems = inputItems
    /\ blocks = <<>>
    /\ grouped = FALSE
    /\ InitFuzzyIdle
    /\ InitModalIdle
    /\ InitWrapIdle
    /\ InitOptimizerIdle
    /\ InitIoIdle
    /\ InitMapIdle

Group ==
    /\ ~grouped
    /\ LET r == groupTextIntoBlocks(textItems)
       IN  /\ textItems' = r.input
           /\ blocks' = r.blocks
    /\ grouped' = TRUE
    /\ UNCHANGED <<inputItems, fuzzyVars, mapVars, ioVars, modalVars, wrapVars, optimizerVars>>

NextGroup == Group

SpecGroup == InitGroup /\ [][NextGroup]_vars

(***************************************************************************)
(* The block builder on the runs of a few lines that lie close together:   *)
(* runs of one width on one page, whose y values are 2 apart and whose     *)
(* heights are 4 or 8, so that a run can be within the y tolerance of two  *)
(* runs that are not within the tolerance of each other.                   *)
(***************************************************************************)
MaxLineRuns == 3

LineShapes ==
    { [ position |-> [x |-> x, y |-> y, width |-> 2, height |-> h], pageIndex |-> 0 ] :
        x \in {0, 4, 8}, y \in {0, 2, 4}, h \in {4, 8} }

LineInputs == {ItemsOf(shapes) : shapes \in SeqsUpTo(LineShapes, MaxLineRuns)}

InitLine ==
    /\ inputItems \in LineInputs
    /\ textItems = inputItems
    /\ blocks = <<>>
    /\ grouped = FALSE
    /\ InitFuzzyIdle
    /\ InitModalIdle
    /\ InitWrapIdle
    /\ InitOptimizerIdle
    /\ InitIoIdle
    /\ InitMapIdle

SpecLine == InitLine /\ [][NextGroup]_vars

(***************************************************************************)
(* The two-run example of the block builder: the first run has y = 500 and *)
(* height 12, the second y = 495; the second starts 1 past the first's     *)
(* right edge ("near") or one more width of the first past it ("far").     *)
(* The widths, the second run's height, the first run's x and the order of *)
(* the two runs in the input are open.                                     *)
(***************************************************************************)
ExampleFirst(x1, w1) ==
    [ id |-> 1, text |-> <<"a">>, pageIndex |-> 0,
      position |-> [x |-> x1, y |-> 500, width |-> w1, height |-> 12] ]

ExampleSecond(x2, w2, h2) ==
    [ id |-> 2, text |-> <<"b">>, pageIndex |-> 0,
      position |-> [x |-> x2, y |-> 495, width |-> w2, height |-> h2] ]

ExampleInputs ==
    { LET x2 == IF far THEN x1 + w1 + w1 ELSE x1 + w1 + 1
      IN  IF firstFirst
          THEN <<ExampleFirst(x1, w1), ExampleSecond(x2, w2, h2)>>
          ELSE <<ExampleSecond(x2, w2, h2), ExampleFirst(x1, w1)>> :
        x1 \in {0, 7}, w1 \in 0..MaxWidth, w2 \in 0..MaxWidth, h2 \in 1..MaxHeight,
        far \in BOOLEAN, firstFirst \in BOOLEAN }

InitExample ==
    /\ inputItems \in ExampleInputs
    /\ textItems = inputItems
    /\ blocks = <<>>
    /\ grouped = FALSE
    /\ InitFuzzyIdle
    /\ InitModalIdle
    /\ InitWrapIdle
    /\ InitOptimizerIdle
    /\ InitIoIdle
    /\ InitMapIdle

SpecExample == InitExample /\ [][NextGroup]_vars

(***************************************************************************)
(* A loaded document: extractTextWithPositions has grouped the document's  *)
(* runs into blocks, and loadPdf has stored the map as pdfTextMap and as   *)
(* modifiedTextMap (the same object).                                      *)
(***************************************************************************)
PageInfo == <<[width |-> 612, height |-> 792], [width |-> 612, height |-> 792]>>

InitLoaded(documents) ==
    /\ inputItems \in documents
    /\ textItems = inputItems
    /\ blocks = groupTextIntoBlocks(inputItems).blocks
    /\ grouped = TRUE
    /\ blockHeap = blocks
    /\ arrayHeap = <<Indices(blocks)>>
    /\ pdfTextMap = [blocks |-> 1, pages |-> PageInfo]
    /\ modifiedTextMap = pdfTextMap
    /\ lastFind = NoCall
    /\ lastReplace = NoCall
    /\ InitFuzzyIdle
    /\ InitModalIdle
    /\ InitWrapIdle
    /\ InitOptimizerIdle
    /\ InitIoIdle

(***************************************************************************)
(* The block locator on its own: one findTextBlockToReplace call on the    *)
(* map of a loaded document.                                               *)
(***************************************************************************)
FindDocuments == {ItemsOf(shapes) : shapes \in SeqsUpTo(RunShapes, MaxCallRuns)}

\* approximate regions: the whole of the runs' area; the strip x in 4..8, which
\* the runs at x = 0 only touch; a strip of zero width inside the runs at
\* x = 0; a box that touches the upper right corner of the runs at (4, 10)
Regions == { [x |-> 0, y |-> 0, width |-> 20, height |-> 30],
             [x |-> 4, y |-> 0, width |-> 4, height |-> 30],
             [x |-> 2, y |-> 0, width |-> 0, height |-> 30],
             [x |-> 8, y |-> 18, width |-> 4, height |-> 4] }

OriginalTexts == {<<"b">>, <<"B", " ">>, <<"z">>}

Find(originalText, position, pageIndex) ==
    /\ lastFind = NoCall
    /\ lastFind' = [ called |-> TRUE,
                     originalText |-> originalText,
                     position |-> position,
                     pageIndex |-> pageIndex,
                     result |-> findTextBlockToReplace(
                                    BlocksOf(blockHeap, arrayHeap, modifiedTextMap),
                                    originalText, position, pageIndex) ]
    /\ UNCHANGED <<fuzzyVars, groupVars, blockHeap, arrayHeap, pdfTextMap,
                   modifiedTextMap, lastReplace, ioVars, modalVars, wrapVars, optimizerVars>>

NextFind ==
    \E originalText \in OriginalTexts, position \in Regions, pageIndex \in Pages :
        Find(originalText, position, pageIndex)

SpecFind == InitLoaded(FindDocuments) /\ [][NextFind]_vars

(***************************************************************************)
(* The block locator on documents with blank glyph runs: the extractor     *)
(* yields runs whose str is empty or a space, and a suggestion's           *)
(* originalText may be empty or blank.                                     *)
(***************************************************************************)
BlankRunTexts == {<<>>, <<" ">>, <<"b">>}

BlankDocuments ==
    { [ i \in DOMAIN runs |->
          [ id |-> i, text |-> runs[i].text,
            position |-> runs[i].shape.position,
            pageIndex |-> runs[i].shape.pageIndex ] ] :
        runs \in SeqsUpTo({ [shape |-> shape, text |-> text] :
                               shape \in {r \in RunShapes : r.position.width > 0},
                               text \in BlankRunTexts },
                          MaxCallRuns) }

BlankOriginalTexts == {<<>>, <<" ", " ">>, <<"b">>, <<"z">>}

WholeArea == [x |-> 0, y |-> 0, width |-> 20, height |-> 30]

NextBlank ==
    \E originalText \in BlankOriginalTexts, pageIndex \in Pages :
        Find(originalText, WholeArea, pageIndex)

SpecBlank == InitLoaded(BlankDocuments) /\ [][NextBlank]_vars

(***************************************************************************)
(* An editing session: suggestions are applied to the loaded document one  *)
(* after the other, each by locating a block in modifiedTextMap and        *)
(* replacing its text (applySuggestion).                                   *)
(***************************************************************************)
EditShapes ==
    { s \in RunShapes :
        /\ s.position.width = 4
        /\ s.pageIndex = 0 \/ (s.position.x = 0 /\ s.position.y = 5) }

EditDocuments == {ItemsOf(shapes) : shapes \in SeqsUpTo(EditShapes, MaxEditRuns)}

Suggestions ==
    { [ originalText |-> o, suggestedText |-> n, page |-> p,
        position |-> [x |-> 0, y |-> 0, width |-> 20, height |-> 30] ] :
        o \in {<<"a">>, <<"c">>}, n \in {<<"x">>, <<"y", " ", "y">>}, p \in {1, 2} }

Replaced(textMap, target, newText, call) ==
    [ called |-> TRUE, textMap |-> textMap, target |-> target, newText |-> newText,
      blockIndex |-> call.blockIndex, result |-> call.result ]

\* applySuggestion from the lookup of the block to setModifiedTextMap, with
\* regeneration and reload succeeding
applySuggestion(suggestion) ==
    /\ Len(arrayHeap) <= MaxEdits
    /\ LET blks == BlocksOf(blockHeap, arrayHeap, modifiedTextMap)
           found == findTextBlockToReplace(blks, suggestion.originalText,
                        suggestion.position, suggestion.page - 1)
       IN  /\ lastFind' = [ called |-> TRUE,
                            originalText |-> suggestion.originalText,
                            position |-> suggestion.position,
                            pageIndex |-> suggestion.page - 1,
                            result |-> found ]
           /\ IF found = 0
              THEN UNCHANGED <<blockHeap, arrayHeap, modifiedTextMap, lastReplace>>
              ELSE LET blockToReplace == blks[found]
                       call == replaceTextInBlock(blockHeap, arrayHeap, modifiedTextMap,
                                   blockToReplace, suggestion.suggestedText)
                   IN  /\ blockHeap' = call.blockHeap
                       /\ arrayHeap' = call.arrayHeap
                       /\ modifiedTextMap' = call.result
                       /\ lastReplace' = Replaced(modifiedTextMap, blockToReplace,
                                             suggestion.suggestedText, call)
    /\ UNCHANGED <<fuzzyVars, groupVars, pdfTextMap, ioVars, modalVars, wrapVars, optimizerVars>>

NextEdit == \E suggestion \in Suggestions : applySuggestion(suggestion)

SpecEdit == InitLoaded(EditDocuments) /\ [][NextEdit]_vars

(***************************************************************************)
(* replaceTextInBlock on its own: calls on the loaded document's map, each *)
(* on the result of the call before, with a target that is a block of any  *)
(* map made so far or a block of another document.                         *)
(***************************************************************************)
ForeignBlocks ==
    { createBlockFromItems(<<[ id |-> 0, text |-> <<"z">>,
                               position |-> s.position, pageIndex |-> s.pageIndex ]>>) :
        s \in {e \in EditShapes : e.position.y = 5} }

Replace(target, newText) ==
    /\ Len(arrayHeap) <= MaxEdits
    /\ LET call == replaceTextInBlock(blockHeap, arrayHeap, modifiedTextMap,
                       target, newText)
       IN  /\ blockHeap' = call.blockHeap
           /\ arrayHeap' = call.arrayHeap
           /\ modifiedTextMap' = call.result
           /\ lastReplace' = Replaced(modifiedTextMap, target, newText, call)
    /\ UNCHANGED <<fuzzyVars, groupVars, pdfTextMap, lastFind, ioVars, modalVars, wrapVars, optimizerVars>>

ReplaceDocuments == {ItemsOf(shapes) : shapes \in SeqsUpTo(EditShapes, MaxCallRuns)}

NextReplace ==
    \E target \in SetOf(blockHeap) \cup ForeignBlocks, newText \in {<<"x">>, <<>>} :
        Replace(target, newText)

SpecReplace == InitLoaded(ReplaceDocuments) /\ [][NextReplace]_vars

(***************************************************************************)
(* The conversion on its own: an item of the extractor is drawn, then the  *)
(* map callback is applied to it.                                          *)
(***************************************************************************)
Optional(S) == {<<>>} \cup {<<n>> : n \in S}

ExtractorItems ==
    { [ str |-> str, transform |-> <<d, 0, 0, d, e, f>>,
        width |-> w, height |-> h, fontSize |-> fs ] :
        str \in {<<>>, <<"a">>, <<"a", "b", " ">>},
        d \in {1, 2}, e \in {-3, 0, 7}, f \in {0, 7},
        w \in Optional({0, 4}), h \in Optional({0, 5, 10}), fs \in Optional({0, 5}) }

InitItem ==
    /\ conversion \in { [done |-> FALSE, item |-> item, pageIndex |-> p] :
                          item \in ExtractorItems, p \in Pages }
    /\ bufferHeap = <<>>
    /\ extraction = NoProcess
    /\ regeneration = NoProcess
    /\ InitFuzzyIdle
    /\ InitModalIdle
    /\ InitWrapIdle
    /\ InitOptimizerIdle
    /\ InitGroupIdle
    /\ InitMapIdle

Convert ==
    /\ ~conversion.done
    /\ conversion' = [ done |-> TRUE, item |-> conversion.item,
                       pageIndex |-> conversion.pageIndex,
                       result |-> toTextItem(conversion.item, conversion.pageIndex, 1) ]
    /\ UNCHANGED <<fuzzyVars, groupVars, mapVars, modalVars, wrapVars, optimizerVars, bufferHeap, extraction,
                   regeneration>>

NextItem == Convert

SpecItem == InitItem /\ [][NextItem]_vars

(***************************************************************************)
(* The two asynchronous operations on their own.  A caller holds the bytes *)
(* of a document in an ArrayBuffer and calls extractTextWithPositions or   *)
(* regeneratePdfWithModifiedText with it; the parser settles every call    *)
(* the operation awaits, with success or with an error, and may detach or  *)
(* overwrite the buffer it was given while the operation is in progress.   *)
(***************************************************************************)
MaxPages == 2
MaxPageItems == 1
MaxPasses == 2
MaxRegenBlocks == 2

Errors == {"E1", "E2"}

IoItems ==
    { [ str |-> <<"a">>, transform |-> <<1, 0, 0, 1, 0, 5>>,
        width |-> <<4>>, height |-> <<10>>, fontSize |-> <<>> ],
      [ str |-> <<"b", " ", "c">>, transform |-> <<1, 0, 0, 1, 30, 40>>,
        width |-> <<>>, height |-> <<>>, fontSize |-> <<5>> ] }

PageSize == [width |-> 612, height |-> 792]

PagesOf(contents) ==
    [ i \in DOMAIN contents |->
        [ size |-> [PageSize EXCEPT !.height = @ + 50 * (i - 1)],
          items |-> contents[i], drawn |-> <<>> ] ]

RECURSIVE SeqsFromOneTo(_, _)
SeqsFromOneTo(S, n) ==
    IF n = 1 THEN {<<e>> : e \in S}
    ELSE LET shorter == SeqsFromOneTo(S, n - 1)
         IN  shorter \cup {Append(q, e) : q \in {r \in shorter : Len(r) = n - 1}, e \in S}

IoDocuments ==
    { [pages |-> PagesOf(contents), overwritten |-> FALSE] :
        contents \in SeqsFromOneTo(SeqsUpTo(IoItems, MaxPageItems), MaxPages) }

Scrambled == [pages |-> <<>>, overwritten |-> TRUE]

\* the glyph runs of all the pages from pageIndex on, as extraction makes them
RECURSIVE itemsOfPages(_, _, _)
itemsOfPages(pages, pageIndex, count) ==
    IF pageIndex >= Len(pages) THEN <<>>
    ELSE LET here == pageTextItems(pages[pageIndex + 1].items, pageIndex, count)
         IN  here \o itemsOfPages(pages, pageIndex + 1, count + Len(here))

\* the map that a successful extraction of the document returns
extractedMap(document) ==
    [ blocks |-> groupTextIntoBlocks(itemsOfPages(document.pages, 0, 0)).blocks,
      pages |-> [i \in DOMAIN document.pages |-> document.pages[i].size] ]

\* the extracted map with its first block, if it has one, replaced
editedMap(document) ==
    LET map == extractedMap(document)
    IN  IF map.blocks = <<>> THEN map
        ELSE [map EXCEPT !.blocks[1] = updatedBlockOf(map.blocks[1], <<"x">>)]

InitOtherIdle ==
    /\ conversion = NoConversion
    /\ InitFuzzyIdle
    /\ InitModalIdle
    /\ InitWrapIdle
    /\ InitOptimizerIdle
    /\ InitGroupIdle
    /\ InitMapIdle

InitIo ==
    /\ \E document \in IoDocuments :
          /\ bufferHeap = <<[bytes |-> document, detached |-> FALSE]>>
          /\ regeneration = [ pc |-> "idle", caller |-> 1, textMap |-> editedMap(document),
                             result |-> <<>> ]
    /\ extraction = [pc |-> "idle", caller |-> 1]
    /\ InitOtherIdle

ExtractAwaits == {"load", "getPage", "getTextContent"}
RegenerateAwaits == {"load", "embedFont", "save"}

ExtractStart ==
    /\ extraction.pc = "idle"
    /\ regeneration.pc = "idle"
    /\ LET r == extractStart(bufferHeap, extraction.caller)
       IN  /\ bufferHeap' = r.heap
           /\ extraction' = r.process
    /\ UNCHANGED <<fuzzyVars, groupVars, mapVars, modalVars, wrapVars, optimizerVars, conversion, regeneration>>

\* the parser settles the call that extractTextWithPositions awaits
ExtractSettles(outcome) ==
    /\ extraction.pc \in ExtractAwaits
    /\ extraction.awaited = Pending
    /\ extraction' = [extraction EXCEPT !.awaited = outcome]
    /\ UNCHANGED <<fuzzyVars, groupVars, mapVars, modalVars, wrapVars, optimizerVars, conversion, bufferHeap, regeneration>>

ExtractContinue ==
    /\ extraction.pc \in ExtractAwaits
    /\ extraction.awaited # Pending
    /\ extraction' = extractContinue(extraction)
    /\ UNCHANGED <<fuzzyVars, groupVars, mapVars, modalVars, wrapVars, optimizerVars, conversion, bufferHeap, regeneration>>

RegenerateStart ==
    /\ regeneration.pc = "idle"
    /\ extraction.pc = "idle"
    /\ LET r == regenerateStart(bufferHeap, regeneration.caller, regeneration.textMap, 1)
       IN  /\ bufferHeap' = r.heap
           /\ regeneration' = r.process
    /\ UNCHANGED <<fuzzyVars, groupVars, mapVars, modalVars, wrapVars, optimizerVars, conversion, extraction>>

\* the parser settles the call that regeneratePdfWithModifiedText awaits
RegenerateSettles(outcome) ==
    /\ regeneration.pc \in RegenerateAwaits
    /\ regeneration.awaited = Pending
    /\ regeneration' = [regeneration EXCEPT !.awaited = outcome]
    /\ UNCHANGED <<fuzzyVars, groupVars, mapVars, modalVars, wrapVars, optimizerVars, conversion, bufferHeap, extraction>>

RegenerateContinue ==
    /\ regeneration.pc \in RegenerateAwaits
    /\ regeneration.awaited # Pending
    /\ LET r == regenerateContinue(bufferHeap, regeneration)
       IN  /\ bufferHeap' = r.heap
           /\ regeneration' = r.process
    /\ UNCHANGED <<fuzzyVars, groupVars, mapVars, modalVars, wrapVars, optimizerVars, conversion, extraction>>

\* the caller regenerates once more with the same map, from the bytes it
\* started with or from the bytes the call before returned
RegenerateAgain(base) ==
    /\ regeneration.pc = "resolved"
    /\ regeneration.pass < MaxPasses
    /\ LET r == regenerateStart(bufferHeap, base, regeneration.textMap,
                                regeneration.pass + 1)
       IN  /\ bufferHeap' = r.heap
           /\ regeneration' = r.process
    /\ UNCHANGED <<fuzzyVars, groupVars, mapVars, modalVars, wrapVars, optimizerVars, conversion, extraction>>

\* the buffer that the parser holds while an operation is in progress
GivenBuffers ==
    (IF extraction.pc \in ExtractAwaits THEN {extraction.given} ELSE {})
    \cup (IF regeneration.pc \in RegenerateAwaits THEN {regeneration.given} ELSE {})

\* the parser transfers the buffer it was given, which detaches it
ParserDetaches ==
    /\ \E ref \in GivenBuffers :
          /\ ~bufferHeap[ref].detached
          /\ bufferHeap' = [bufferHeap EXCEPT ![ref].detached = TRUE]
    /\ UNCHANGED <<fuzzyVars, groupVars, mapVars, modalVars, wrapVars, optimizerVars, conversion, extraction, regeneration>>

\* the parser writes into the buffer it was given
ParserOverwrites ==
    /\ \E ref \in GivenBuffers :
          /\ ~bufferHeap[ref].detached
          /\ bufferHeap[ref].bytes # Scrambled
          /\ bufferHeap' = [bufferHeap EXCEPT ![ref].bytes = Scrambled]
    /\ UNCHANGED <<fuzzyVars, groupVars, mapVars, modalVars, wrapVars, optimizerVars, conversion, extraction, regeneration>>

Outcomes == {Fulfilled} \cup {Rejected(error) : error \in Errors}

NextIo ==
    \/ ExtractStart
    \/ \E outcome \in Outcomes : ExtractSettles(outcome)
    \/ ExtractContinue
    \/ RegenerateStart
    \/ \E outcome \in Outcomes : RegenerateSettles(outcome)
    \/ RegenerateContinue
    \/ ParserDetaches
    \/ ParserOverwrites

SpecIo == InitIo /\ [][NextIo]_vars

(***************************************************************************)
(* Regeneration on its own: a document of one page or more and a map of    *)
(* blocks, modified or not, on the first two pages; the map is regenerated *)
(* and then regenerated again.                                             *)
(***************************************************************************)
RegenTexts == { <<>>, <<"a", "b", " ", "c", "d">>, <<" ", "\n", "a">> }

RegenBlockOn(pageIndex) ==
    createBlockFromItems(<< [ id |-> 1, text |-> <<"z">>, pageIndex |-> pageIndex,
                              position |-> [x |-> 10, y |-> 5, width |-> 20, height |-> 12] ] >>)

RegenBlocks ==
    {RegenBlockOn(p) : p \in Pages}
    \cup {updatedBlockOf(RegenBlockOn(p), t) : p \in Pages, t \in RegenTexts}

RegenMaps ==
    {[blocks |-> blks, pages |-> <<>>] : blks \in SeqsUpTo(RegenBlocks, MaxRegenBlocks)}

RegenDocuments ==
    { [pages |-> PagesOf(contents), overwritten |-> FALSE] :
        contents \in SeqsFromOneTo({<<>>}, MaxPages) }

InitRegen ==
    /\ \E document \in RegenDocuments, map \in RegenMaps :
          /\ bufferHeap = <<[bytes |-> document, detached |-> FALSE]>>
          /\ regeneration = [ pc |-> "idle", caller |-> 1, textMap |-> map,
                             result |-> <<>> ]
    /\ extraction = NoProcess
    /\ InitOtherIdle

NextRegen ==
    \/ RegenerateStart
    \/ \E outcome \in Outcomes : RegenerateSettles(outcome)
    \/ RegenerateContinue
    \/ \E base \in {1} \cup SetOf(regeneration.result) : RegenerateAgain(base)

SpecRegen == InitRegen /\ [][NextRegen]_vars

(***************************************************************************)
(* A session of the editor modal: the parent (AnalysisResults) mounts the  *)
(* modal closed and opens it; the user closes and reopens it and clicks    *)
(* Apply on the suggestions listed; the browser and the parser settle the  *)
(* calls that the executions await, in any order; the parent unmounts the  *)
(* modal.  The document has one page with two blocks; the third suggestion *)
(* refers to a page the document does not have.                            *)
(***************************************************************************)
MaxExecutions == 3

ModalDocument ==
    [ pages |-> PagesOf(<< << [ str |-> <<"a">>, transform |-> <<1, 0, 0, 1, 0, 5>>,
                                width |-> <<4>>, height |-> <<10>>, fontSize |-> <<>> ],
                              [ str |-> <<"b", " ", "c">>,
                                transform |-> <<1, 0, 0, 1, 30, 40>>,
                                width |-> <<>>, height |-> <<>>, fontSize |-> <<5>> ] >> >>),
      overwritten |-> FALSE ]

ModalSuggestions ==
    << [ originalText |-> <<"a">>, suggestedText |-> <<"x">>, page |-> 1,
         position |-> [x |-> 0, y |-> 0, width |-> 10, height |-> 20],
         applied |-> FALSE ],
       [ originalText |-> <<"b", " ", "c">>, suggestedText |-> <<"y">>, page |-> 1,
         position |-> [x |-> 25, y |-> 35, width |-> 20, height |-> 20],
         applied |-> FALSE ],
       [ originalText |-> <<"z">>, suggestedText |-> <<"w">>, page |-> 2,
         position |-> [x |-> 50, y |-> 100, width |-> 400, height |-> 50],
         applied |-> FALSE ] >>

\* the outcomes of an awaited call
ModalOutcomes == {Fulfilled, Rejected("E1")}

Session ==
    [ modal |-> modal, pdfInstanceRef |-> pdfInstanceRef, handles |-> handles,
      executions |-> executions ]

Becomes(s) ==
    /\ modal' = s.modal
    /\ pdfInstanceRef' = s.pdfInstanceRef
    /\ handles' = s.handles
    /\ executions' = s.executions
    /\ UNCHANGED <<fuzzyVars, groupVars, mapVars, ioVars, wrapVars, optimizerVars>>

InitModal ==
    /\ modal = [NoModal EXCEPT !.mounted = TRUE]
    /\ pdfInstanceRef = 0
    /\ handles = <<>>
    /\ executions = <<>>
    /\ InitFuzzyIdle
    /\ InitGroupIdle
    /\ InitMapIdle
    /\ InitIoIdle
    /\ InitWrapIdle
    /\ InitOptimizerIdle

LoadPdfAwaits ==
    {"arrayBuffer", "getDocument", "extractTextWithPositions", "generateSuggestions"}
ApplySuggestionAwaits == {"arrayBuffer", "regeneratePdfWithModifiedText", "getDocument"}

\* the execution is at an await
InProgress(e) ==
    \/ e.kind = "loadPdf" /\ e.pc \in LoadPdfAwaits
    \/ e.kind = "applySuggestion" /\ e.pc \in ApplySuggestionAwaits

\* the effect on [pdfFile, pdfjs, isOpen], run with the state s
loadEffect(s) == IF s.modal.pdfjs /\ s.modal.isOpen THEN loadPdfStart(s) ELSE s

\* the dynamic import of pdfjs-dist resolves: setPdfjs, then the effect
PdfjsLoaded ==
    /\ modal.mounted
    /\ ~modal.pdfjs
    /\ Len(executions) < MaxExecutions
    /\ Becomes(loadEffect([Session EXCEPT !.modal.pdfjs = TRUE]))

\* the parent's button: setIsPdfEditorOpen(true), then the effect
OpenModal ==
    /\ modal.mounted
    /\ ~modal.isOpen
    /\ Len(executions) < MaxExecutions
    /\ Becomes(loadEffect([Session EXCEPT !.modal.isOpen = TRUE]))

\* Cancel, or the dialog is dismissed: onClose
CloseModal ==
    /\ modal.mounted
    /\ modal.isOpen
    /\ Becomes([Session EXCEPT !.modal.isOpen = FALSE])

\* a click on the Apply button of a suggestion that is listed
ClickApply(suggestionId) ==
    /\ modal.mounted
    /\ modal.isOpen
    /\ ~modal.loading
    /\ suggestionId \in DOMAIN modal.suggestions
    /\ ~modal.suggestions[suggestionId].applied
    /\ modal.pdfjs
    /\ modal.pdfTextMap # <<>>
    /\ modal.modifiedTextMap # <<>>
    /\ Len(executions) < MaxExecutions
    /\ Becomes(applySuggestionStart(Session, suggestionId))

\* the call that a loadPdf execution awaits settles, and loadPdf goes on
LoadPdfContinue(i, outcome, opened) ==
    /\ executions[i].kind = "loadPdf"
    /\ executions[i].pc \in LoadPdfAwaits
    /\ Becomes(loadPdfContinue(Session, i, outcome, opened,
                               extractedMap(ModalDocument), ModalSuggestions))

\* the call that an applySuggestion execution awaits settles, and it goes on
ApplySuggestionContinue(i, outcome) ==
    /\ executions[i].kind = "applySuggestion"
    /\ executions[i].pc \in ApplySuggestionAwaits
    /\ Becomes(applySuggestionContinue(Session, i, outcome))

\* the parent stops rendering the modal
Unmount ==
    /\ modal.mounted
    /\ Becomes(unmount(Session))

NextModal ==
    \/ PdfjsLoaded
    \/ OpenModal
    \/ CloseModal
    \/ \E suggestionId \in DOMAIN ModalSuggestions : ClickApply(suggestionId)
    \/ \E i \in DOMAIN executions, outcome \in ModalOutcomes, opened \in BOOLEAN :
          LoadPdfContinue(i, outcome, opened)
    \/ \E i \in DOMAIN executions, outcome \in ModalOutcomes :
          ApplySuggestionContinue(i, outcome)
    \/ Unmount

SpecModal == InitModal /\ [][NextModal]_vars

(***************************************************************************)
(* The redraw of one modified block on its own: the block's replacement    *)
(* text is any text of words, spaces and line breaks, and its box any of   *)
(* three widths, of one, two and three characters of the font.             *)
(***************************************************************************)
MaxTextLen == 5

WrapChars == {"a", " ", "\n"}

WrapTexts == SeqsUpTo(WrapChars, MaxTextLen)

WrapWidths == {5, 10, 15}

WrapBlock(text, width) ==
    updatedBlockOf(
        createBlockFromItems(<< [ id |-> 1, text |-> <<"z">>, pageIndex |-> 0,
                                  position |-> [ x |-> 10, y |-> 50, width |-> width,
                                                 height |-> 12 ] ] >>),
        text)

InitWrap ==
    /\ \E text \in WrapTexts, width \in WrapWidths :
          layout = [done |-> FALSE, block |-> WrapBlock(text, width)]
    /\ InitFuzzyIdle
    /\ InitGroupIdle
    /\ InitMapIdle
    /\ InitIoIdle
    /\ InitModalIdle
    /\ InitOptimizerIdle

\* the body of "for (const block of modifiedBlocks)" on a page 792 high
Redraw ==
    /\ ~layout.done
    /\ layout' = [ done |-> TRUE, block |-> layout.block,
                   ops |-> drawBlock(layout.block, 1, 0, PageSize.height) ]
    /\ UNCHANGED <<fuzzyVars, groupVars, mapVars, ioVars, modalVars, optimizerVars>>

NextWrap == Redraw

SpecWrap == InitWrap /\ [][NextWrap]_vars

(***************************************************************************)
(* Claims about the similarity matcher (SpecFuzzy).                        *)
(***************************************************************************)
toUpperCase(s) ==
    [ i \in DOMAIN s |->
        IF \E k \in DOMAIN LowerCase : LowerCase[k] = s[i]
        THEN UpperCase[CHOOSE k \in DOMAIN LowerCase : LowerCase[k] = s[i]]
        ELSE s[i] ]

\* the same text with every whitespace character doubled into a space and a
\* tab, and whitespace added at both ends
RECURSIVE widenSpaces(_)
widenSpaces(s) ==
    IF s = <<>> THEN <<>>
    ELSE IF isWhiteSpace(Head(s))
         THEN <<Head(s), "\t">> \o widenSpaces(Tail(s))
         ELSE <<Head(s)>> \o widenSpaces(Tail(s))

Respaced(s) == <<" ">> \o widenSpaces(s) \o <<"\n", " ">>

\* |intersection| / |union| of the word sets of a and b is above 0.70
JaccardAbove70(a, b) ==
    LET A == SetOf(split(a))
        B == SetOf(split(b))
    IN  10 * Cardinality(A \cap B) > 7 * Cardinality(A \cup B)

\* C7: fuzzyTextMatch(a, b) is true exactly when, with both operands trimmed,
\* whitespace-collapsed and lowercased, one contains the other or the Jaccard
\* similarity of their word sets is strictly above 0.70; the result is the same
\* for operands that differ in case and spacing only; 'Python' vs 'Java',
\* 'a b c' vs 'b c d' and a pair of similarity exactly 0.70 do not match.
C7_FuzzyMatchCharacterised ==
    matchResult # "none" =>
        LET a == normalize(text1)
            b == normalize(text2)
            matched == (matchResult = "true")
        IN  /\ matched <=> (includes(a, b) \/ includes(b, a) \/ JaccardAbove70(a, b))
            /\ matched <=> fuzzyTextMatch(toUpperCase(Respaced(text1)), text2)
            /\ matched <=> fuzzyTextMatch(text1, Respaced(toUpperCase(text2)))
            /\ (text1 = Python /\ text2 = Java) => ~matched
            /\ (text1 = ABC /\ text2 = BCD) => ~matched
            /\ (text1 = SevenWords /\ text2 = TenWords) => ~matched
            /\ (text1 = SeniorSpaced /\ text2 = SeniorPlain) => matched

\* C7 witness: a match decided by the Jaccard similarity alone (3/4), neither
\* operand containing the other
C7_Witness ==
    /\ text1 = ABC /\ text2 = CBAD /\ matchResult = "true"
    /\ ~includes(normalize(text1), normalize(text2))
    /\ ~includes(normalize(text2), normalize(text1))

(***************************************************************************)
(* Claims about the block builder (SpecGroup, SpecExample).                *)
(***************************************************************************)
\* the places (block, index) of the output that hold the run item
PlacesOf(item) ==
    { bk \in {<<b, k>> : b \in DOMAIN blocks, k \in 1..MaxRuns + 1} :
        /\ bk[2] \in DOMAIN blocks[bk[1]].items
        /\ blocks[bk[1]].items[bk[2]] = item }

RECURSIVE SumLen(_)
SumLen(blks) == IF blks = <<>> THEN 0 ELSE Len(Head(blks).items) + SumLen(Tail(blks))

\* C8: groupTextIntoBlocks partitions its input: every input run is in exactly
\* one block, once; no block is empty; the runs of a block are on the block's
\* page; the input array is unchanged; no runs give no blocks.
C8_GroupingPartitions ==
    grouped =>
        /\ \A i \in DOMAIN inputItems : Cardinality(PlacesOf(inputItems[i])) = 1
        /\ SumLen(blocks) = Len(inputItems)
        /\ \A b \in DOMAIN blocks :
              /\ Len(blocks[b].items) > 0
              /\ \A k \in DOMAIN blocks[b].items :
                    blocks[b].items[k].pageIndex = blocks[b].pageIndex
        /\ textItems = inputItems
        /\ (inputItems = <<>> => blocks = <<>>)

\* C8 witness: three runs given out of sorted order, grouped into two blocks
\* on different pages
C8_Witness ==
    /\ grouped
    /\ Len(inputItems) = 3
    /\ sort(inputItems) # inputItems
    /\ Len(blocks) = 2
    /\ blocks[1].pageIndex # blocks[2].pageIndex

ExampleRun(i) == CHOOSE item \in SetOf(inputItems) : item.id = i
ExampleGap ==
    ExampleRun(2).position.x - (ExampleRun(1).position.x + ExampleRun(1).position.width)
ExampleNear == ExampleGap = 1
ExampleFar == ExampleGap = ExampleRun(1).position.width

\* C10 as stated: the two runs of the example merge when x2 = x1 + width1 + 1
\* and split when x2 = x1 + width1 + width1, whatever the widths and the
\* second run's height.  It is stated here for a first run at least 2 wide and
\* a second run at least 1 wide only, which is enough to refute it.
C10_ExampleAsStated ==
    (/\ grouped
     /\ ExampleRun(1).position.width >= 2
     /\ ExampleRun(2).position.width >= 1) =>
        /\ ExampleNear => Len(blocks) = 1
        /\ ExampleFar => Len(blocks) = 2

\* C10 amended: with a first run of positive width, the near pair merges
\* exactly when the second run's height is at least 10 and its width at least
\* 2, and the far pair splits exactly when the second run's height is below 10
\* or its width below twice the first's.
C10_ExampleAmended ==
    (grouped /\ ExampleRun(1).position.width > 0) =>
        LET w1 == ExampleRun(1).position.width
            w2 == ExampleRun(2).position.width
            h2 == ExampleRun(2).position.height
        IN  /\ Len(blocks) \in {1, 2}
            /\ ExampleNear => (Len(blocks) = 1 <=> (h2 >= 10 /\ w2 >= 2))
            /\ ExampleFar => (Len(blocks) = 2 <=> (h2 < 10 \/ w2 < 2 * w1))

\* C10 witness: the near pair with equal widths 4 and heights 12, given second
\* run first, merged into one block
C10_Witness ==
    /\ grouped
    /\ inputItems[1].id = 2
    /\ ExampleNear
    /\ ExampleRun(1).position.width = 4
    /\ ExampleRun(2).position.width = 4
    /\ ExampleRun(2).position.height = 12
    /\ Len(blocks) = 1
    /\ Len(blocks[1].items) = 2

\* the runs of the output in the order of the output: block after block
RECURSIVE OutputRuns(_)
OutputRuns(blks) ==
    IF blks = <<>> THEN <<>> ELSE Head(blks).items \o OutputRuns(Tail(blks))

\* the two runs share a page and each lies within the y tolerance of the other
InBand(a, b) ==
    /\ a.pageIndex = b.pageIndex
    /\ 2 * Abs(a.position.y - b.position.y) <= Max(a.position.height, b.position.height)

\* C11 as stated: in the output of groupTextIntoBlocks, of two runs that share
\* a page and lie within the y tolerance of each other the one with the
\* smaller x comes first, and the runs of every block are in non-decreasing x
\* order.
C11_LeftToRightAsStated ==
    grouped =>
        LET out == OutputRuns(blocks)
        IN  /\ \A i, j \in DOMAIN out :
                  (InBand(out[i], out[j]) /\ out[i].position.x < out[j].position.x)
                      => i < j
            /\ \A b \in DOMAIN blocks :
                  \A k \in 1..(Len(blocks[b].items) - 1) :
                      blocks[b].items[k].position.x <= blocks[b].items[k + 1].position.x

\* the block of the output that holds the k-th run of the output
RECURSIVE BlockOfPlace(_, _)
BlockOfPlace(blks, k) ==
    IF k <= Len(Head(blks).items) THEN 1
    ELSE 1 + BlockOfPlace(Tail(blks), k - Len(Head(blks).items))

\* the three triggers between a run p and the run r that follows it
PageTrigger(p, r) == r.pageIndex # p.pageIndex
LineTrigger(p, r) == 2 * Abs(r.position.y - p.position.y) > r.position.height
GapTrigger(p, r) ==
    2 * r.position.x > 2 * (p.position.x + p.position.width) + r.position.width

\* C20: the output holds the sorted runs in their order, and a block boundary
\* falls between a run and the next exactly when the page changes, or the y
\* values differ by more than half the next run's height, or the next run
\* starts more than half its width past the right edge of the run before it.
C20_BoundariesAtTriggers ==
    grouped =>
        LET out == OutputRuns(blocks)
        IN  /\ out = sort(inputItems)
            /\ \A b \in DOMAIN blocks : blocks[b].items # <<>>
            /\ \A k \in 1..(Len(out) - 1) :
                  (BlockOfPlace(blocks, k) # BlockOfPlace(blocks, k + 1))
                      <=> \/ PageTrigger(out[k], out[k + 1])
                          \/ LineTrigger(out[k], out[k + 1])
                          \/ GapTrigger(out[k], out[k + 1])

\* C20 witness: three runs, the first two in one block, and a boundary before
\* the third that the change of page alone causes
C20_Witness ==
    /\ grouped
    /\ Len(blocks) = 2
    /\ Len(blocks[1].items) = 2
    /\ Len(blocks[2].items) = 1
    /\ PageTrigger(blocks[1].items[2], blocks[2].items[1])
    /\ ~LineTrigger(blocks[1].items[2], blocks[2].items[1])
    /\ ~GapTrigger(blocks[1].items[2], blocks[2].items[1])

(***************************************************************************)
(* Claims about the text map update (SpecReplace, SpecEdit).               *)
(***************************************************************************)
ExtractedBlocks == BlocksOf(blockHeap, arrayHeap, pdfTextMap)
ModifiedBlocks == BlocksOf(blockHeap, arrayHeap, modifiedTextMap)

\* C1: replaceTextInBlock never mutates the map it is given: over any chain of
\* calls, every blocks array and every block that existed before a call is the
\* same after it, and the extracted map keeps every block unmodified.
C1_InputMapNeverMutated ==
    [][ /\ \A a \in DOMAIN arrayHeap : arrayHeap'[a] = arrayHeap[a]
        /\ \A b \in DOMAIN blockHeap : blockHeap'[b] = blockHeap[b]
        /\ pdfTextMap' = pdfTextMap
        /\ BlocksOf(blockHeap', arrayHeap', pdfTextMap')
             = groupTextIntoBlocks(inputItems).blocks
        /\ \A i \in DOMAIN BlocksOf(blockHeap', arrayHeap', pdfTextMap') :
             ~BlocksOf(blockHeap', arrayHeap', pdfTextMap')[i].isModified ]_vars

\* C1 witness: after two successful replacements the edited map is another
\* object than the extracted one and holds a modified block
C1_Witness ==
    /\ Len(arrayHeap) = 3
    /\ modifiedTextMap.blocks # pdfTextMap.blocks
    /\ \E i \in DOMAIN ModifiedBlocks : ModifiedBlocks[i].isModified
    /\ \A i \in DOMAIN ExtractedBlocks : ~ExtractedBlocks[i].isModified

\* C2 as stated: after a successful replaceTextInBlock the block at the matched
\* index has the new text, isModified, the matched block's text as originalText
\* and the matched block's position, page and runs.
C2_ReplacedBlockAsStated ==
    (lastReplace.called /\ lastReplace.blockIndex # 0) =>
        LET matched == BlocksOf(blockHeap, arrayHeap, lastReplace.textMap)[lastReplace.blockIndex]
            updated == BlocksOf(blockHeap, arrayHeap, lastReplace.result)[lastReplace.blockIndex]
        IN  /\ updated.text = lastReplace.newText
            /\ updated.isModified
            /\ updated.originalText = matched.text
            /\ updated.position = matched.position
            /\ updated.pageIndex = matched.pageIndex
            /\ updated.items = matched.items

\* C3: when no block has the target's (pageIndex, x, y), replaceTextInBlock
\* returns the very map it was given and changes no block and no array.
C3_NotFoundReturnsSameMap ==
    [][ (lastReplace' # lastReplace /\ lastReplace'.blockIndex = 0) =>
            /\ lastReplace'.result = lastReplace'.textMap
            /\ lastReplace'.textMap = modifiedTextMap
            /\ modifiedTextMap' = modifiedTextMap
            /\ blockHeap' = blockHeap
            /\ arrayHeap' = arrayHeap ]_vars

\* C3 witness: a call that found no block, made on a map that an earlier call
\* had modified
C3_Witness ==
    /\ lastReplace.called
    /\ lastReplace.blockIndex = 0
    /\ findIndex(ModifiedBlocks, lastReplace.target) = 0
    /\ \E i \in DOMAIN ModifiedBlocks : ModifiedBlocks[i].isModified

\* no two blocks of the extracted map have the same (pageIndex, x, y), so that
\* the block the locator returns is the block replaceTextInBlock replaces
DistinctOrigins ==
    \A i, j \in DOMAIN ExtractedBlocks :
        (/\ ExtractedBlocks[i].pageIndex = ExtractedBlocks[j].pageIndex
         /\ ExtractedBlocks[i].position.x = ExtractedBlocks[j].position.x
         /\ ExtractedBlocks[i].position.y = ExtractedBlocks[j].position.y) => i = j

\* C4 as stated: after any sequence of locate-and-replace edits every modified
\* block's originalText is the text the block had in the extracted map, and an
\* unmodified block has no originalText.  It is stated here for the documents
\* whose blocks have distinct origins only, which is enough to refute it.
C4_OriginalTextAsStated ==
    DistinctOrigins =>
        \A i \in DOMAIN ModifiedBlocks :
            IF ModifiedBlocks[i].isModified
            THEN ModifiedBlocks[i].originalText = ExtractedBlocks[i].text
            ELSE ModifiedBlocks[i].originalText = Undefined

\* the min/max envelope of a block's runs
Envelope(items) ==
    LET left == SetMin({r.position.x : r \in SetOf(items)})
        bottom == SetMin({r.position.y : r \in SetOf(items)})
        right == SetMax({r.position.x + r.position.width : r \in SetOf(items)})
        top == SetMax({r.position.y + r.position.height : r \in SetOf(items)})
    IN  [x |-> left, y |-> bottom, width |-> right - left, height |-> top - bottom]

\* C9 as stated: every block that groupTextIntoBlocks produced has the envelope
\* of its runs as its box, and the block has that same box after any number of
\* text replacements.
C9_BoxPinnedAsStated ==
    \A i \in DOMAIN ExtractedBlocks :
        /\ ExtractedBlocks[i].position = Envelope(ExtractedBlocks[i].items)
        /\ ModifiedBlocks[i].position = ExtractedBlocks[i].position

(***************************************************************************)
(* Claims about the block locator (SpecFind).                              *)
(***************************************************************************)
\* the intersection of the two boxes has positive width and positive height
PositiveIntersection(a, b) ==
    /\ Min(a.x + a.width, b.x + b.width) - Max(a.x, b.x) > 0
    /\ Min(a.y + a.height, b.y + b.height) - Max(a.y, b.y) > 0

\* the indices of the blocks on the call's page that overlap the call's region
Candidates ==
    { i \in DOMAIN ModifiedBlocks :
        /\ ModifiedBlocks[i].pageIndex = lastFind.pageIndex
        /\ PositiveIntersection(ModifiedBlocks[i].position, lastFind.position) }

TouchesOnly(a, b) ==
    /\ ~PositiveIntersection(a, b)
    /\ Min(a.x + a.width, b.x + b.width) >= Max(a.x, b.x)
    /\ Min(a.y + a.height, b.y + b.height) >= Max(a.y, b.y)

\* C5: findTextBlockToReplace returns null exactly when no block on the page
\* has an intersection of positive width and height with the region; a block
\* on another page, one that only touches the region, or a region or block of
\* zero width or height is never returned.
C5_NullIffNoOverlap ==
    lastFind.called =>
        /\ lastFind.result = 0 <=> Candidates = {}
        /\ lastFind.result # 0 =>
              LET block == ModifiedBlocks[lastFind.result]
              IN  /\ block.pageIndex = lastFind.pageIndex
                  /\ ~TouchesOnly(block.position, lastFind.position)
                  /\ lastFind.position.width > 0 /\ lastFind.position.height > 0
                  /\ block.position.width > 0 /\ block.position.height > 0

\* C5 witness: null although a block on the page touches the region along an
\* edge and another page holds a block that overlaps it
C5_Witness ==
    /\ lastFind.called
    /\ lastFind.result = 0
    /\ \E i \in DOMAIN ModifiedBlocks :
          /\ ModifiedBlocks[i].pageIndex = lastFind.pageIndex
          /\ ModifiedBlocks[i].position.width > 0
          /\ TouchesOnly(ModifiedBlocks[i].position, lastFind.position)
    /\ \E i \in DOMAIN ModifiedBlocks :
          /\ ModifiedBlocks[i].pageIndex # lastFind.pageIndex
          /\ PositiveIntersection(ModifiedBlocks[i].position, lastFind.position)

Lowest(S) == CHOOSE i \in S : \A j \in S : i <= j

Supplied(v) == v # <<>>
SuppliedNonZero(v) == v # <<>> /\ v[1] # 0

\* C19 as stated: the run's x and y are the transform's e and f, its width is
\* the extractor's width when supplied and text.length x fontSize x 0.6 only
\* when it is omitted, its height is the extractor's height when supplied and
\* fontSize x 1.2 only when it is omitted.  fontSize is the run's fontSize.
\* It is stated here for the items whose width and height are supplied and
\* not zero only, which is enough to refute it.
C19_PositionAsStated ==
    (/\ conversion.done
     /\ SuppliedNonZero(conversion.item.width)
     /\ SuppliedNonZero(conversion.item.height)) =>
        LET item == conversion.item
            run == conversion.result.position
        IN  /\ run.x = item.transform[5]
            /\ run.y = item.transform[6]
            /\ run.width = IF Supplied(item.width) THEN item.width[1]
                           ELSE (Len(item.str) * run.fontSize * 6) \div 10
            /\ run.height = IF Supplied(item.height) THEN item.height[1]
                            ELSE (run.fontSize * 12) \div 10

\* C19 amended: x and y are e and f; the font size is the extractor's height
\* when that is supplied and not zero, else the transform's d times the
\* extractor's fontSize (10 when that is omitted or zero); the height is always
\* 1.2 times the font size; the width is the extractor's width when that is
\* supplied and not zero, else text.length x font size x 0.6.
C19_PositionAmended ==
    conversion.done =>
        LET item == conversion.item
            run == conversion.result.position
            size == IF SuppliedNonZero(item.height) THEN item.height[1]
                    ELSE item.transform[4]
                           * (IF SuppliedNonZero(item.fontSize) THEN item.fontSize[1] ELSE 10)
        IN  /\ run.x = item.transform[5]
            /\ run.y = item.transform[6]
            /\ 10 * run.height = 12 * size
            /\ IF SuppliedNonZero(item.width)
               THEN run.width = item.width[1]
               ELSE 10 * run.width = 6 * Len(item.str) * size
            /\ conversion.result.text = item.str
            /\ conversion.result.pageIndex = conversion.pageIndex

\* C19 witness: an item with height 10 supplied and the width omitted becomes
\* a run of height 12 and of width 3 x 10 x 0.6 = 18
C19_Witness ==
    /\ conversion.done
    /\ conversion.item.height = <<10>>
    /\ conversion.item.width = <<>>
    /\ Len(conversion.item.str) = 3
    /\ conversion.result.position.height = 12
    /\ conversion.result.position.width = 18

(***************************************************************************)
(* Claims about regeneration (SpecRegen).                                  *)
(***************************************************************************)
\* the operations of the call in progress have been issued
Drawn == regeneration.pc \in {"save", "resolved"}

RegenBlock(k) == regeneration.textMap.blocks[k]

\* the block is marked modified and is on a page of the document
ToRedraw(k) ==
    /\ RegenBlock(k).isModified
    /\ RegenBlock(k).pageIndex \in 0..(Len(regeneration.document.pages) - 1)

\* the places in the issued operations of the operations named name for block k
OpsFor(k, name) ==
    { i \in DOMAIN regeneration.ops :
        regeneration.ops[i].block = k /\ regeneration.ops[i].operation.op = name }

\* the text has a character that is not whitespace
NonBlank(text) == \E i \in DOMAIN text : ~isWhiteSpace(text[i])

\* the operations already on the pages of the bytes the call was given, which
\* an earlier call issued for block k
EarlierFor(k) ==
    { <<p, i>> \in (DOMAIN regeneration.document.pages) \X (1..20) :
        /\ i \in DOMAIN regeneration.document.pages[p].drawn
        /\ regeneration.document.pages[p].drawn[i].block = k }

\* C12 as stated: a rectangle and a text redraw are issued for a block exactly
\* when it is modified and on a page of the document, none for an unmodified
\* block, none at all when no block is modified; and regenerating again with
\* the same map adds no drawing for a block that was redrawn already.
C12_DrawingAsStated ==
    Drawn =>
        /\ \A k \in DOMAIN regeneration.textMap.blocks :
              /\ OpsFor(k, "drawRectangle") # {} <=> ToRedraw(k)
              /\ OpsFor(k, "drawText") # {} => ToRedraw(k)
              /\ EarlierFor(k) # {} =>
                    OpsFor(k, "drawRectangle") \cup OpsFor(k, "drawText") = {}
        /\ (\A k \in DOMAIN regeneration.textMap.blocks : ~RegenBlock(k).isModified)
              => regeneration.ops = <<>>

\* C12 amended: exactly one rectangle is issued for a block that is modified
\* and on a page of the document, followed by its text operations, of which
\* there is one or more exactly when the text is not blank; nothing is issued
\* for another block, so nothing at all when no block is modified; the bytes
\* returned hold the operations of the bytes given followed by the operations
\* issued, so regenerating the returned bytes with the same map issues the
\* operations of every modified block once more: the bytes given then hold
\* these very operations, once for every earlier call.
C12_DrawingAmended ==
    /\ Drawn =>
        /\ \A k \in DOMAIN regeneration.textMap.blocks :
              /\ Cardinality(OpsFor(k, "drawRectangle")) = (IF ToRedraw(k) THEN 1 ELSE 0)
              /\ OpsFor(k, "drawText") # {}
                    <=> (ToRedraw(k) /\ NonBlank(RegenBlock(k).text))
              /\ \A i \in OpsFor(k, "drawRectangle"), j \in OpsFor(k, "drawText") : i < j
              /\ \A i \in OpsFor(k, "drawRectangle") \cup OpsFor(k, "drawText") :
                    regeneration.ops[i].page = RegenBlock(k).pageIndex
        /\ \A i \in DOMAIN regeneration.ops :
              regeneration.ops[i].block \in DOMAIN regeneration.textMap.blocks
        /\ (\A k \in DOMAIN regeneration.textMap.blocks : ~RegenBlock(k).isModified)
              => regeneration.ops = <<>>
    /\ regeneration.pc = "resolved" =>
        LET given == regeneration.document.pages
            returned == bufferHeap[regeneration.result[1]].bytes.pages
        IN  /\ DOMAIN returned = DOMAIN given
            /\ \A p \in DOMAIN given :
                  /\ returned[p].size = given[p].size
                  /\ returned[p].drawn
                       = given[p].drawn
                         \o SelectSeq(regeneration.ops, LAMBDA o : o.page = p - 1)
                  /\ regeneration.caller # 1 =>
                        LET again == SelectSeq(regeneration.ops, LAMBDA o : o.page = p - 1)
                        IN  /\ again = <<>> => given[p].drawn = <<>>
                            /\ again # <<>> =>
                                  /\ Len(given[p].drawn) >= Len(again)
                                  /\ Len(given[p].drawn) % Len(again) = 0
                                  /\ \A i \in DOMAIN given[p].drawn :
                                        given[p].drawn[i]
                                          = again[((i - 1) % Len(again)) + 1]

\* C12 witness: a second regeneration, of the bytes the first returned, of a
\* map with a modified block on the only page and a modified block on a page
\* the document does not have: the first block's rectangle is on the page twice
C12_Witness ==
    /\ regeneration.pc = "resolved"
    /\ regeneration.pass = 2
    /\ regeneration.caller # 1
    /\ Len(regeneration.document.pages) = 1
    /\ Len(regeneration.textMap.blocks) = 2
    /\ ToRedraw(1)
    /\ RegenBlock(2).isModified /\ ~ToRedraw(2)
    /\ Cardinality({ i \in DOMAIN bufferHeap[regeneration.result[1]].bytes.pages[1].drawn :
                       LET o == bufferHeap[regeneration.result[1]].bytes.pages[1].drawn[i]
                       IN  o.block = 1 /\ o.operation.op = "drawRectangle" }) = 2

\* C13 as stated: the rectangle issued for a modified block has the block's x,
\* width and height, and covers on the page the vertical extent of the block's
\* box.  Both the map's y (the f component of the extractor's transform) and
\* the y of drawRectangle (the lower edge of the rectangle) are distances from
\* the lower edge of the page, so that the two extents coincide exactly when
\* the rectangle's y is the block's y.
C13_WhiteoutAsStated ==
    Drawn =>
        \A i \in DOMAIN regeneration.ops :
            regeneration.ops[i].operation.op = "drawRectangle" =>
                LET rectangle == regeneration.ops[i].operation
                    box == RegenBlock(regeneration.ops[i].block).position
                IN  /\ rectangle.x = box.x
                    /\ rectangle.width = box.width
                    /\ rectangle.height = box.height
                    /\ rectangle.y = box.y
                    /\ rectangle.y + rectangle.height = box.y + box.height

(***************************************************************************)
(* Claims about the two asynchronous operations (SpecIo).                  *)
(***************************************************************************)
\* the buffer is attached and holds the bytes of a document
Intact(ref) == ~bufferHeap[ref].detached /\ ~bufferHeap[ref].bytes.overwritten

\* C14 as stated: the parser is given a buffer other than the caller's, and
\* the caller's buffer holds its bytes and is attached during and after the
\* call, whatever the parser does to the buffer it was given.
C14_BufferAsStated ==
    /\ extraction.pc # "idle" =>
          /\ extraction.given # extraction.caller
          /\ Intact(extraction.caller)
    /\ regeneration.pc # "idle" =>
          /\ regeneration.given # regeneration.caller
          /\ Intact(regeneration.caller)

\* C15: a failure of the call that is awaited ends the operation with that
\* error and without a result, whether it is the load, a page, the text of a
\* page (also after other pages were extracted), the font or the save; an
\* operation that ends with a result has had no failure, and the map it
\* returns is the map of all the pages.
C15_FailuresAreHard ==
    /\ extraction.pc = "rejected" =>
          /\ extraction.awaited.state = "rejected"
          /\ extraction.error = extraction.awaited.error
          /\ extraction.result = <<>>
    /\ extraction.pc \in ExtractAwaits => extraction.result = <<>>
    /\ extraction.pc = "resolved" =>
          /\ extraction.awaited = Fulfilled
          /\ extraction.result = <<extractedMap(extraction.document)>>
    /\ regeneration.pc = "rejected" =>
          /\ regeneration.awaited.state = "rejected"
          /\ regeneration.error = regeneration.awaited.error
          /\ regeneration.result = <<>>
    /\ regeneration.pc \in RegenerateAwaits => regeneration.result = <<>>
    /\ regeneration.pc = "resolved" =>
          /\ regeneration.awaited = Fulfilled
          /\ Len(regeneration.result) = 1

\* C15 witness: the text of the second page fails with E2 after the first
\* page's glyph runs were extracted, and the extraction is rejected with E2
C15_Witness ==
    /\ extraction.pc = "rejected"
    /\ extraction.error = "E2"
    /\ extraction.pageIndex = 1
    /\ Len(extraction.pageInfo) = 2
    /\ extraction.allTextItems # <<>>
    /\ extraction.result = <<>>

(***************************************************************************)
(* Claims about the editor modal (SpecModal).                              *)
(***************************************************************************)
\* what the edits made so far have left in the modal: the modified map, the
\* URL of the modified document and the applied flags
Edits ==
    << modal.modifiedTextMap, modal.modifiedPdfUrl,
       [k \in DOMAIN modal.suggestions |-> modal.suggestions[k].applied] >>

\* the pc of an applySuggestion execution that has not got past the
\* regeneration, or that has failed
NotRegenerated == {"notLocated", "arrayBuffer", "regeneratePdfWithModifiedText", "failed"}

\* C16: a step that an applySuggestion execution takes up to and including its
\* failure (no block located, or the read of the file or the regeneration
\* throws) leaves modifiedTextMap, the modified document's URL and the applied
\* flags as they were, so that the earlier edits stay in the map; and the step
\* in which it fails leaves the loading flag false.
C16_FailedEditAbortsItself ==
    [][ \A i \in DOMAIN executions' :
            ( /\ executions'[i].kind = "applySuggestion"
              /\ executions'[i].pc \in NotRegenerated
              /\ (i \in DOMAIN executions => executions[i] # executions'[i]) )
            => /\ Edits' = Edits
               /\ executions'[i].pc \in {"notLocated", "failed"} => ~modal'.loading
      ]_vars

\* C16 witness: the first suggestion was applied, then the second one was
\* attempted and its regeneration threw: the first block still has its
\* replacement text, the second is unmodified, and loading is false
C16_Witness ==
    /\ Len(executions) = 3
    /\ executions[2].kind = "applySuggestion" /\ executions[2].pc = "done"
    /\ executions[2].suggestionId = 1
    /\ executions[3].kind = "applySuggestion" /\ executions[3].pc = "failed"
    /\ executions[3].suggestionId = 2
    /\ modal.mounted
    /\ ~modal.loading
    /\ modal.modifiedPdfUrl = 2
    /\ modal.suggestions[1].applied /\ ~modal.suggestions[2].applied
    /\ \E k \in DOMAIN modal.modifiedTextMap[1].blocks :
          /\ modal.modifiedTextMap[1].blocks[k].isModified
          /\ modal.modifiedTextMap[1].blocks[k].text = <<"x">>
    /\ \E k \in DOMAIN modal.modifiedTextMap[1].blocks :
          /\ ~modal.modifiedTextMap[1].blocks[k].isModified
          /\ modal.modifiedTextMap[1].blocks[k].text = <<"b", " ", "c">>

\* C17 as stated: at no time are two applySuggestion executions, or an
\* applySuggestion execution and a loadPdf execution, in progress together.
C17_OneAtATimeAsStated ==
    \A i, j \in DOMAIN executions :
        ( /\ i # j
          /\ InProgress(executions[i])
          /\ InProgress(executions[j]) )
        => executions[i].kind = "loadPdf" /\ executions[j].kind = "loadPdf"

\* C18 as stated: once the modal is unmounted, every document that the parser
\* opened during the session is destroyed; and while it is mounted, a document
\* that loadPdf or updatePdfWithModifiedBytes opened and that is no longer
\* the current one, a newer one having replaced it, is destroyed.
C18_HandlesReleasedAsStated ==
    /\ ~modal.mounted => \A h \in DOMAIN handles : handles[h].destroyed
    /\ \A h \in DOMAIN handles :
          ( /\ handles[h].openedBy # "extractTextWithPositions"
            /\ pdfInstanceRef # 0
            /\ pdfInstanceRef # h )
          => handles[h].destroyed

(***************************************************************************)
(* Further claims about the text map update (SpecEdit, SpecReplace).       *)
(***************************************************************************)
\* the block references of the map given to the last call and of its result
RefsBefore == arrayHeap[lastReplace.textMap.blocks]
RefsAfter == arrayHeap[lastReplace.result.blocks]

\* the indices in the map given to the last call of the blocks that have the
\* target's (pageIndex, x, y)
SameOrigin ==
    { i \in DOMAIN RefsBefore :
        /\ blockHeap[RefsBefore[i]].pageIndex = lastReplace.target.pageIndex
        /\ blockHeap[RefsBefore[i]].position.x = lastReplace.target.position.x
        /\ blockHeap[RefsBefore[i]].position.y = lastReplace.target.position.y }

\* C21: a call that replaces a block replaces the block of the lowest index
\* among those with the target's (pageIndex, x, y), and every other block with
\* that origin is in the result the very block it was, with every field as
\* before, whichever of them was the target.
C21_FirstOfSameOriginReplaced ==
    (lastReplace.called /\ lastReplace.blockIndex # 0) =>
        /\ lastReplace.blockIndex \in SameOrigin
        /\ \A i \in SameOrigin : lastReplace.blockIndex <= i
        /\ RefsAfter[lastReplace.blockIndex] # RefsBefore[lastReplace.blockIndex]
        /\ \A i \in SameOrigin \ {lastReplace.blockIndex} :
              /\ RefsAfter[i] = RefsBefore[i]
              /\ blockHeap[RefsAfter[i]]
                   = BlocksOf(blockHeap, arrayHeap, lastReplace.textMap)[i]

\* C21 witness: two blocks of the map have the target's origin, and the target
\* was the second of them: the first was replaced and the target itself is
\* still in the map
C21_Witness ==
    /\ lastReplace.called
    /\ lastReplace.blockIndex # 0
    /\ Cardinality(SameOrigin) >= 2
    /\ \E j \in SameOrigin :
          /\ j > lastReplace.blockIndex
          /\ blockHeap[RefsBefore[j]] = lastReplace.target
          /\ blockHeap[RefsBefore[j]] # blockHeap[RefsBefore[lastReplace.blockIndex]]
          /\ blockHeap[RefsAfter[j]] = lastReplace.target

\* C22: a call that replaces a block returns a map whose blocks array is a
\* new array of the same length, in which the index found holds a block that
\* no array held before and every other index holds the very block of the map
\* given, and whose page dimensions are those of the map given, in order.
C22_OneBlockReplaced ==
    (lastReplace.called /\ lastReplace.blockIndex # 0) =>
        /\ lastReplace.result.blocks # lastReplace.textMap.blocks
        /\ Len(RefsAfter) = Len(RefsBefore)
        /\ RefsAfter[lastReplace.blockIndex] \notin SetOf(RefsBefore)
        /\ blockHeap[RefsAfter[lastReplace.blockIndex]].isModified
        /\ \A i \in DOMAIN RefsAfter :
              i # lastReplace.blockIndex => RefsAfter[i] = RefsBefore[i]
        /\ Cardinality({i \in DOMAIN RefsAfter : RefsAfter[i] # RefsBefore[i]}) = 1
        /\ lastReplace.result.pages = lastReplace.textMap.pages

\* C22 witness: a replacement of the second of two blocks, the first of which
\* an earlier call had replaced
C22_Witness ==
    /\ lastReplace.called
    /\ lastReplace.blockIndex = 2
    /\ Len(RefsBefore) = 2
    /\ blockHeap[RefsBefore[1]].isModified
    /\ RefsAfter[1] = RefsBefore[1]
    /\ RefsAfter[2] # RefsBefore[2]
    /\ Len(lastReplace.result.pages) = 2

(***************************************************************************)
(* CvOptimizer on its own: the user types a job description, uploads       *)
(* files and clicks Analyze; the conversion route and the analysis settle  *)
(* the calls that the handlers await, in any order.                        *)
(***************************************************************************)
MaxUploads == 3
MaxAnalyses == 1

ConvertAwaits == {"fetch", "json", "errorJson"}

ConvertOutcomes == {"ok", "notOk", "rejected"}

Uploads == {i \in DOMAIN conversions : conversions[i].kind = "handleFileUpload"}
Analyses == {i \in DOMAIN conversions : conversions[i].kind = "handleAnalyze"}

Optimizing == [optimizer |-> optimizer, conversions |-> conversions]

OptimizerBecomes(s) ==
    /\ optimizer' = s.optimizer
    /\ conversions' = s.conversions
    /\ UNCHANGED <<fuzzyVars, groupVars, mapVars, ioVars, modalVars, wrapVars>>

InitOptimizer ==
    /\ optimizer = [NoOptimizer EXCEPT !.mounted = TRUE]
    /\ conversions = <<>>
    /\ InitFuzzyIdle
    /\ InitGroupIdle
    /\ InitMapIdle
    /\ InitIoIdle
    /\ InitModalIdle
    /\ InitWrapIdle

\* onChange of the job description, from empty to a text
TypeJobDescription ==
    /\ ~optimizer.jobDescription
    /\ OptimizerBecomes([Optimizing EXCEPT !.optimizer.jobDescription = TRUE])

\* FileUploader calls onFileUpload with a file it has validated by its name
HandleFileUpload(isPdf) ==
    /\ Cardinality(Uploads) < MaxUploads
    /\ OptimizerBecomes(handleFileUploadStart(Optimizing, isPdf))

HandleFileUploadContinue(i, outcome) ==
    /\ i \in Uploads
    /\ conversions[i].pc \in ConvertAwaits
    /\ conversions[i].pc = "fetch" \/ outcome # "notOk"
    /\ OptimizerBecomes(handleFileUploadContinue(Optimizing, i, outcome))

HandleAnalyze ==
    /\ Cardinality(Analyses) < MaxAnalyses
    /\ analyzeEnabled(optimizer)
    /\ OptimizerBecomes(handleAnalyzeStart(Optimizing))

HandleAnalyzeContinue(i, outcome) ==
    /\ i \in Analyses
    /\ conversions[i].pc = "analyze"
    /\ outcome # "notOk"
    /\ OptimizerBecomes(handleAnalyzeContinue(Optimizing, i, outcome))

NextOptimizer ==
    \/ TypeJobDescription
    \/ \E isPdf \in BOOLEAN : HandleFileUpload(isPdf)
    \/ \E i \in DOMAIN conversions, outcome \in ConvertOutcomes :
          HandleFileUploadContinue(i, outcome)
    \/ HandleAnalyze
    \/ \E i \in DOMAIN conversions, outcome \in ConvertOutcomes :
          HandleAnalyzeContinue(i, outcome)

SpecOptimizer == InitOptimizer /\ [][NextOptimizer]_vars

(***************************************************************************)
(* Claims about the word-wrapped redraw (SpecWrap).                        *)
(***************************************************************************)
\* the drawText operations of the redraw, in the order they were issued
TextOps ==
    LET texts == SelectSeq(layout.ops, LAMBDA o : o.operation.op = "drawText")
    IN  [i \in DOMAIN texts |-> texts[i].operation]

\* the rectangle of the redraw
RectangleOp == layout.ops[1].operation

\* the words of a string that are not empty
nonEmptyWords(str) == SelectSeq(splitOn(str, " "), LAMBDA w : w # <<>>)

\* the paragraphs of the block's text that are not blank, as lists of words
ParagraphWords ==
    LET paragraphs == SelectSeq(splitOn(layout.block.text, "\n"),
                                LAMBDA paragraph : trim(paragraph) # <<>>)
    IN  [i \in DOMAIN paragraphs |-> nonEmptyWords(paragraphs[i])]

\* the drawn lines, as lists of words
LineWords == [i \in DOMAIN TextOps |-> nonEmptyWords(TextOps[i].text)]

\* the lines are, paragraph after paragraph, the words of the paragraph in
\* order: the first lines hold the words of the first paragraph and nothing
\* else, and so on
RECURSIVE LinesHoldParagraphs(_, _, _)
LinesHoldParagraphs(lines, paragraphs, words) ==
    IF paragraphs = <<>> THEN lines = <<>> /\ words = <<>>
    ELSE IF words = Head(paragraphs)
         THEN LinesHoldParagraphs(lines, Tail(paragraphs), <<>>)
         ELSE /\ lines # <<>>
              /\ Len(words) < Len(Head(paragraphs))
              /\ LinesHoldParagraphs(Tail(lines), paragraphs, words \o Head(lines))

\* C23: a drawn line of two words or more is not wider than the rectangle; a
\* line wider than the rectangle is one word, without a space; every drawn
\* line holds a word; and the drawn lines hold, paragraph after paragraph,
\* the non-empty words of the paragraph once each and in order.
C23_WrappedLinesFit ==
    layout.done =>
        /\ \A i \in DOMAIN TextOps :
              LET width == widthOfTextAtSize(TextOps[i].text, TextOps[i].size)
              IN  /\ Len(LineWords[i]) >= 1
                  /\ Len(LineWords[i]) >= 2 => width <= layout.block.position.width
                  /\ width > layout.block.position.width =>
                        /\ Len(LineWords[i]) = 1
                        /\ TextOps[i].text = LineWords[i][1]
        /\ LinesHoldParagraphs(LineWords, ParagraphWords, <<>>)

\* C23 witness: "aa a" in a rectangle one character wide: the word "aa" is
\* drawn on a line of its own, wider than the rectangle, and "a" on the next
C23_Witness ==
    /\ layout.done
    /\ layout.block.text = <<"a", "a", " ", "a">>
    /\ layout.block.position.width = 5
    /\ Len(TextOps) = 2
    /\ TextOps[1].text = <<"a", "a">>
    /\ TextOps[2].text = <<"a">>
    /\ widthOfTextAtSize(TextOps[1].text, 10) > layout.block.position.width

\* the paragraphs of the block's text, blank ones included, as lists of words
AllParagraphWords ==
    LET paragraphs == splitOn(layout.block.text, "\n")
    IN  [i \in DOMAIN paragraphs |-> nonEmptyWords(paragraphs[i])]

\* the offsets the lines are stated to be drawn at: 12 more after a line
\* flushed inside a paragraph, 18 more after the last line of a paragraph,
\* 12 more for a blank paragraph
RECURSIVE StatedOffsets(_, _, _, _)
StatedOffsets(lines, paragraphs, words, offset) ==
    IF paragraphs = <<>> \/ (lines = <<>> /\ Head(paragraphs) # <<>>) THEN <<>>
    ELSE IF Head(paragraphs) = <<>>
         THEN StatedOffsets(lines, Tail(paragraphs), <<>>, offset + 12)
         ELSE IF words \o Head(lines) = Head(paragraphs)
              THEN <<offset>> \o StatedOffsets(Tail(lines), Tail(paragraphs), <<>>, offset + 18)
              ELSE <<offset>> \o StatedOffsets(Tail(lines), paragraphs,
                                               words \o Head(lines), offset + 12)

\* C24: at size 10 the offset starts at 0 and grows by 12 for each line
\* flushed inside a paragraph, by 18 for the last line of each non-empty
\* paragraph and by 12 for each blank paragraph; it never decreases, and each
\* line is drawn at the offset reached before it.
C24_OffsetsAsStated ==
    layout.done =>
        LET stated == StatedOffsets(LineWords, AllParagraphWords, <<>>, 0)
        IN  /\ Len(stated) = Len(TextOps)
            /\ \A i \in DOMAIN TextOps :
                  /\ TextOps[i].size = 10
                  /\ TextOps[i].y - RectangleOp.y = stated[i]
            /\ \A i, j \in DOMAIN TextOps :
                  i < j => TextOps[i].y <= TextOps[j].y

\* C25: in the coordinates of the drawing interface, where y grows upward
\* from the bottom of the page, each later line of a block is drawn lower than
\* the line before it, and no line is drawn above the rectangle.
C25_DownwardAsStated ==
    layout.done =>
        /\ \A i, j \in DOMAIN TextOps : i < j => TextOps[j].y < TextOps[i].y
        /\ \A i \in DOMAIN TextOps :
              TextOps[i].y < RectangleOp.y + RectangleOp.height

(***************************************************************************)
(* A further claim about the extraction (SpecIo).                          *)
(***************************************************************************)
\* the text and the page index that the glyph runs of the extractor's pages
\* k, k + 1, ... up to and including page last are stated to carry
RECURSIVE StatedRuns(_, _, _)
StatedRuns(pages, k, last) ==
    IF k > last THEN <<>>
    ELSE [ i \in DOMAIN pages[k].items |->
             [text |-> pages[k].items[i].str, pageIndex |-> k - 1] ]
         \o StatedRuns(pages, k + 1, last)

\* the text and the page index of the glyph runs collected so far
CollectedRuns ==
    [ i \in DOMAIN extraction.allTextItems |->
        [ text |-> extraction.allTextItems[i].text,
          pageIndex |-> extraction.allTextItems[i].pageIndex ] ]

\* while extractor page k + 1 or its text is awaited, the viewports and the
\* runs of the pages 1..k, and of no other page, have been collected
PagesInOrder ==
    /\ extraction.pc \in {"getPage", "getTextContent"} =>
          /\ extraction.pageIndex < Len(extraction.document.pages)
          /\ Len(extraction.pageInfo) =
                extraction.pageIndex + (IF extraction.pc = "getPage" THEN 0 ELSE 1)
          /\ \A i \in DOMAIN extraction.pageInfo :
                extraction.pageInfo[i] = extraction.document.pages[i].size
          /\ CollectedRuns = StatedRuns(extraction.document.pages, 1, extraction.pageIndex)
    /\ extraction.pc = "resolved" =>
          LET pages == extraction.document.pages
              map == extraction.result[1]
          IN  /\ Len(map.pages) = Len(pages)
              /\ \A i \in DOMAIN pages : map.pages[i] = pages[i].size
              /\ CollectedRuns = StatedRuns(pages, 1, Len(pages))
              /\ \A b \in DOMAIN map.blocks : \A i \in DOMAIN map.blocks[b].items :
                    \E j \in DOMAIN extraction.allTextItems :
                        map.blocks[b].items[i] = extraction.allTextItems[j]

\* a page is requested when the document has loaded, for page 1, or when the
\* text of the page before it has resolved
PageRequestedAfterText ==
    (extraction'.pc = "getPage" /\ extraction.pc # "getPage") =>
        /\ extraction.awaited = Fulfilled
        /\ \/ extraction.pc = "load" /\ extraction'.pageIndex = 0
           \/ /\ extraction.pc = "getTextContent"
              /\ extraction'.pageIndex = extraction.pageIndex + 1

\* C26: the pages are processed one after the other in ascending order: page
\* k + 1 is requested only after the text of page k has resolved; on success
\* the list of page dimensions has numPages entries, entry i being the
\* viewport of extractor page i + 1, and every glyph run of extractor page p
\* carries pageIndex p - 1.
C26_PagesSequential == []PagesInOrder /\ [][PageRequestedAfterText]_vars

\* C26 witness: a document of two pages with a run on each has been
\* extracted; the run of the second page carries pageIndex 1
C26_Witness ==
    /\ extraction.pc = "resolved"
    /\ Len(extraction.document.pages) = 2
    /\ Len(extraction.allTextItems) = 2
    /\ extraction.allTextItems[2].pageIndex = 1
    /\ extraction.result[1].pages[2] = [width |-> 612, height |-> 842]
    /\ extraction.result[1].pages[1] # extraction.result[1].pages[2]

(***************************************************************************)
(* A claim about blank texts in the block locator (SpecBlank).             *)
(***************************************************************************)
\* the text is empty or consists of whitespace only
Blank(text) == \A i \in DOMAIN text : isWhiteSpace(text[i])

\* C27: an originalText that is empty or whitespace only fuzzy-matches every
\* block text, so the locator returns the first block that overlaps the
\* region on the page whatever its text; and a block whose text is empty or
\* whitespace only fuzzy-matches every originalText, so it is returned when
\* it is the first block that overlaps.
C27_BlankMatchesAll ==
    lastFind.called =>
        /\ Blank(lastFind.originalText) =>
              /\ \A i \in DOMAIN ModifiedBlocks :
                    fuzzyTextMatch(ModifiedBlocks[i].text, lastFind.originalText)
              /\ Candidates # {} => lastFind.result = Lowest(Candidates)
        /\ \A i \in DOMAIN ModifiedBlocks :
              Blank(ModifiedBlocks[i].text) =>
                 /\ fuzzyTextMatch(ModifiedBlocks[i].text, lastFind.originalText)
                 /\ (Candidates # {} /\ i = Lowest(Candidates)) => lastFind.result = i

\* C27 witness: the region overlaps a block whose text is blank and, after
\* it, a block whose text is "b"; the locator is asked for "b" and returns
\* the blank block
C27_Witness ==
    /\ lastFind.called
    /\ lastFind.originalText = <<"b">>
    /\ Cardinality(Candidates) = 2
    /\ lastFind.result = Lowest(Candidates)
    /\ Blank(ModifiedBlocks[lastFind.result].text)
    /\ \E i \in Candidates : ModifiedBlocks[i].text = <<"b">>

\* C27 second witness: the locator is asked for a blank text and returns the
\* first of two overlapping blocks, whose text is "b"
C27_WitnessBlankOriginal ==
    /\ lastFind.called
    /\ lastFind.originalText = <<" ", " ">>
    /\ Cardinality(Candidates) = 2
    /\ lastFind.result = Lowest(Candidates)
    /\ ModifiedBlocks[lastFind.result].text = <<"b">>

(***************************************************************************)
(* A claim about the origins of the blocks (SpecGroup).                    *)
(***************************************************************************)
\* C28: no two distinct blocks that groupTextIntoBlocks produces have the
\* same (pageIndex, position.x, position.y), so that the key of
\* replaceTextInBlock identifies one block.
C28_UniqueOriginsAsStated ==
    grouped =>
        \A i, j \in DOMAIN blocks :
            (/\ blocks[i].pageIndex = blocks[j].pageIndex
             /\ blocks[i].position.x = blocks[j].position.x
             /\ blocks[i].position.y = blocks[j].position.y) => i = j

(***************************************************************************)
(* A claim about the accumulation of edits in the modal (SpecModal).       *)
(***************************************************************************)
\* no execution is in progress and every applySuggestion call has completed
\* successfully
AppliesSucceeded ==
    \A i \in DOMAIN executions :
        /\ ~InProgress(executions[i])
        /\ executions[i].kind = "applySuggestion" => executions[i].pc = "done"

\* the map has a modified block that carries the suggestion's suggestedText
Carries(textMap, suggestion) ==
    /\ textMap # <<>>
    /\ \E b \in DOMAIN textMap[1].blocks :
          /\ textMap[1].blocks[b].isModified
          /\ textMap[1].blocks[b].text = suggestion.suggestedText

\* C29: after applySuggestion calls that each completed successfully, every
\* suggestion marked applied has a modified block with its suggestedText in
\* modifiedTextMap, and the latest regenerated document was made from the
\* original bytes with the modified blocks of all of them.
C29_EditsAccumulateAsStated ==
    (modal.mounted /\ AppliesSucceeded) =>
        \A k \in DOMAIN modal.suggestions :
            modal.suggestions[k].applied =>
                /\ Carries(modal.modifiedTextMap, modal.suggestions[k])
                /\ modal.modifiedPdfUrl # 0
                /\ Carries(executions[modal.modifiedPdfUrl].updatedTextMap,
                           modal.suggestions[k])

(***************************************************************************)
(* A claim about CvOptimizer (SpecOptimizer).                              *)
(***************************************************************************)
\* a conversion request is in flight
ConversionInFlight == \E i \in Uploads : conversions[i].pc \in ConvertAwaits

\* C30: whenever pdfUrl is not null it is the conversion of the file held in
\* cvFile, under every interleaving of uploads and completions of their
\* conversions, and isConvertingPdf is false only when no conversion is in
\* flight.
C30_UrlOfCurrentFileAsStated ==
    /\ optimizer.pdfUrl # 0 => optimizer.pdfUrl = optimizer.cvFile
    /\ ~optimizer.isConvertingPdf => ~ConversionInFlight

====
